---- MODULE Spec2Model ----
(***************************************************************************)
(* Streaming producers of meridian-llm-go: the OpenRouter SSE aggregator,  *)
(* the Anthropic event transformer and the Lorem mock producer, each       *)
(* writing StreamEvents to one caller-visible event channel.               *)
(***************************************************************************)
EXTENDS Integers, Sequences, FiniteSets, TLC

VARIABLES
    provider,        \* which backend's StreamResponse is being run
    pc,              \* position of the call / producer goroutine
    producers,       \* number of producer goroutines started
    ctxDone,         \* the caller's context has been cancelled
    cancelledLive,   \* history: ctx was cancelled while the producer still had events to deliver
    eventChan,       \* the event channel: events sent, close count, sends after close
    state,           \* openrouter BlockState
    thinkingContent, \* openrouter accumulator (strings.Builder)
    textContent,     \* openrouter accumulator (strings.Builder)
    toolCallsMap,    \* openrouter map[int]*accumulatedToolCall
    nchunks,         \* openrouter: SSE chunks read so far
    lastChunk,       \* openrouter history: the chunk the loop body handled last
    message,         \* anthropic: the SDK's accumulated message (its Content list)
    nevents,         \* anthropic: upstream events read so far
    lorem,           \* lorem: request parameters and the goroutine's locals
    returned,        \* what the StreamResponse call returned, with the inputs that decided it
    adapter,         \* message conversion: the input list, the function applied, its output
    classified,      \* error classification: the call made, its input and its result
    response,        \* what a GenerateResponse call returned
    registry,        \* a process-wide registry, its locks, and the tasks using it
    checked          \* a predicate or validation call: the function, its input, its result

vars == <<provider, pc, producers, ctxDone, cancelledLive, eventChan, state,
          thinkingContent, textContent, toolCallsMap, nchunks, lastChunk, message, nevents, lorem,
          returned, adapter, classified, response, registry, checked>>

\* the state of the library functions that run outside a stream
libVars == <<adapter, classified, response, registry, checked>>

orVars == <<state, thinkingContent, textContent, toolCallsMap, nchunks, lastChunk>>
anVars == <<message, nevents>>

(***************************************************************************)
(* Bounds                                                                  *)
(***************************************************************************)
MaxChunks == 3       \* openrouter: SSE chunks per stream
MaxAnEvents == 3     \* anthropic: upstream events per stream
MaxBlockIdx == 1     \* anthropic: largest block index an upstream event names

(***************************************************************************)
(* StreamEvent and the event channel                                       *)
(***************************************************************************)
NoIndex == -1        \* ToolCall.Index == nil
ChanCap == 10

\* BlockDelta: kind = "" when BlockType is nil
DeltaEv(index, blockType, deltaType, data) ==
    [ev |-> "delta", idx |-> index, kind |-> blockType, dkind |-> deltaType, data |-> data]
\* complete Block
BlockEv(blockType, sequence, data) ==
    [ev |-> "block", idx |-> sequence, kind |-> blockType, dkind |-> "", data |-> data]
MetadataEv(stopReason, outTokens) ==
    [ev |-> "metadata", idx |-> outTokens, kind |-> stopReason, dkind |-> "", data |-> <<>>]
ErrorEv(cause) ==
    [ev |-> "error", idx |-> 0, kind |-> cause, dkind |-> "", data |-> <<>>]
\* the zero StreamEvent{} of transformAnthropicStreamEvent
EmptyEv == [ev |-> "", idx |-> 0, kind |-> "", dkind |-> "", data |-> <<>>]

IsBlockStart(d) == d.ev = "delta" /\ d.kind # ""

\* len(eventChan): the events sent and not yet received (recv counts the receives)
ChanLen(ch) == Len(ch.sent) - ch.recv

\* a send that drops the event when the buffer is full instead of blocking
ChSend_DropWhenFull(ch, e) ==
    IF ch.closed > 0 THEN [ch EXCEPT !.late = @ + 1]
    ELSE IF ChanLen(ch) >= ChanCap THEN ch
    ELSE [ch EXCEPT !.sent = Append(@, e)]

\* eventChan <- e   (a send on a closed channel panics: counted in late)
ChSend(ch, e) ==
    IF ch.closed > 0 THEN [ch EXCEPT !.late = @ + 1]
    ELSE [ch EXCEPT !.sent = Append(@, e)]
RECURSIVE ChSendAll(_, _)
ChSendAll(ch, es) ==
    IF es = <<>> THEN ch ELSE ChSendAll(ChSend(ch, Head(es)), Tail(es))
\* close(eventChan)
ChClose(ch) == [ch EXCEPT !.closed = @ + 1]

(***************************************************************************)
(* OpenRouter: parsing (tools.go)                                          *)
(***************************************************************************)
RECURSIVE ConcatDetails(_)
ConcatDetails(details) ==
    IF details = <<>> THEN <<>>
    ELSE LET d == Head(details)
         IN (IF d.type \in {"reasoning.text", "reasoning.summary"} THEN d.text ELSE <<>>)
            \o ConcatDetails(Tail(details))

\* nil is modelled as FALSE / the empty text
extractWebSearchInfo(annotations) == annotations > 0
extractThinkingInfo(details) == ConcatDetails(details)
extractTextInfo(content) == content

parseDelta(annotations, reasoningDetails, content) ==
    [WebSearch |-> extractWebSearchInfo(annotations),
     Thinking  |-> extractThinkingInfo(reasoningDetails),
     Text      |-> extractTextInfo(content)]

HasThinking(parsed) == parsed.Thinking # <<>>
HasText(parsed) == parsed.Text # <<>>

determineTransition(st, parsed) ==
    LET base == [ClosePrevious |-> FALSE, StartNew |-> FALSE, NewType |-> "",
                 NewIndex |-> st.CurrentIndex]
    IN IF st.CurrentType = "thinking" /\ HasText(parsed) /\ ~HasThinking(parsed)
       THEN [base EXCEPT !.ClosePrevious = TRUE, !.StartNew = TRUE, !.NewType = "text",
                         !.NewIndex = st.CurrentIndex + 1]
       ELSE IF HasThinking(parsed) /\ st.CurrentType # "thinking"
       THEN [base EXCEPT !.StartNew = TRUE, !.NewType = "thinking"]
       ELSE IF HasText(parsed) /\ st.CurrentType # "text"
       THEN [base EXCEPT !.StartNew = TRUE, !.NewType = "text"]
       ELSE base

\* two blocks (web_search_use, web_search_result) for a non-empty annotation list
convertAnnotationsToWebSearchBlocks(annotations, startSequence) ==
    IF annotations = 0 THEN <<>>
    ELSE << BlockEv("web_search_use", startSequence, <<>>),
            BlockEv("web_search_result", startSequence + 1, <<>>) >>

(***************************************************************************)
(* OpenRouter: emitStreamingBlocks (streaming.go)                          *)
(* a is the aggregator record [st, thinking, text, map, out]; out collects  *)
(* the events the handler sends, in order.                                 *)
(***************************************************************************)
EmitWebSearch(a, parsed, annotations) ==
    IF parsed.WebSearch /\ ~a.st.WebSearchDone
    THEN LET blocks == convertAnnotationsToWebSearchBlocks(annotations, a.st.CurrentIndex)
         IN [a EXCEPT !.out = @ \o blocks,
                      !.st.CurrentIndex = @ + Len(blocks),
                      !.st.WebSearchDone = TRUE]
    ELSE a

EmitClosePrevious(a, transition) ==
    IF transition.ClosePrevious /\ a.st.CurrentType = "thinking" /\ Len(a.thinking) > 0
    THEN [a EXCEPT !.out = Append(@, BlockEv("thinking", a.st.CurrentIndex, a.thinking))]
    ELSE a

EmitStartNew(a, transition) ==
    IF transition.StartNew
    THEN [a EXCEPT !.out = Append(@, DeltaEv(transition.NewIndex,
                                     IF transition.NewType = "thinking" THEN "thinking" ELSE "text",
                                     "text_delta", <<>>)),
                   !.st.CurrentType = transition.NewType,
                   !.st.CurrentIndex = transition.NewIndex]
    ELSE a

EmitThinkingDelta(a, parsed) ==
    IF HasThinking(parsed) /\ a.st.CurrentType = "thinking"
    THEN [a EXCEPT !.thinking = @ \o parsed.Thinking,
                   !.out = Append(@, DeltaEv(a.st.CurrentIndex, "", "text_delta", parsed.Thinking))]
    ELSE a

EmitTextDelta(a, parsed) ==
    IF HasText(parsed) /\ a.st.CurrentType = "text"
    THEN [a EXCEPT !.text = @ \o parsed.Text,
                   !.out = Append(@, DeltaEv(a.st.CurrentIndex, "", "text_delta", parsed.Text))]
    ELSE a

emitStreamingBlocks(a, parsed, transition, annotations) ==
    EmitTextDelta(
      EmitThinkingDelta(
        EmitStartNew(
          EmitClosePrevious(
            EmitWebSearch(a, parsed, annotations), transition), transition), parsed), parsed)

(***************************************************************************)
(* OpenRouter: tool-call accumulation in streamEvents (streaming.go)       *)
(***************************************************************************)
\* findToolCallIndex ranges over a Go map: with several entries of the same id
\* any of them may be returned, so the result is a set of possible indices
\* (empty = not found).
findToolCallIndex(map, id) ==
    IF id = "" THEN {} ELSE {i \in DOMAIN map : map[i].ID = id}

\* the map index used for one tool-call delta
ToolCallMapIndex(map, tc) ==
    IF tc.index # NoIndex THEN {tc.index}
    ELSE IF findToolCallIndex(map, tc.id) # {} THEN findToolCallIndex(map, tc.id)
    ELSE {Cardinality(DOMAIN map)}

\* block index carried by the deltas of the tool call at map index idx
ToolBlockIndex(st, idx) == st.CurrentIndex + 1 + idx

AccumulateToolCall(a, tc, idx) ==
    LET exists == idx \in DOMAIN a.map
        acc0 == IF exists THEN a.map[idx] ELSE [ID |-> "", Name |-> "", Arguments |-> <<>>]
        start == IF exists THEN <<>>
                 ELSE << DeltaEv(ToolBlockIndex(a.st, idx), "tool_use", "tool_call_start",
                                 <<tc.id, tc.name>>) >>
        acc1 == [acc0 EXCEPT !.ID = IF tc.id # "" THEN tc.id ELSE @,
                             !.Name = IF tc.name # "" THEN tc.name ELSE @,
                             !.Arguments = @ \o tc.arguments]
        json == IF tc.arguments # <<>>
                THEN << DeltaEv(ToolBlockIndex(a.st, idx), "", "json_delta", tc.arguments) >>
                ELSE <<>>
    IN [a EXCEPT !.map = (idx :> acc1) @@ a.map,
                 !.out = @ \o start \o json]

\* the loop over delta.ToolCalls; the set of possible outcomes
RECURSIVE ProcessToolCalls(_, _)
ProcessToolCalls(a, calls) ==
    IF calls = <<>> THEN {a}
    ELSE UNION { ProcessToolCalls(AccumulateToolCall(a, Head(calls), idx), Tail(calls)) :
                 idx \in ToolCallMapIndex(a.map, Head(calls)) }

\* one parsed chunk: parseDelta, determineTransition, emitStreamingBlocks, tool calls
ProcessChunk(a, chunk) ==
    LET parsed == parseDelta(chunk.annotations, chunk.reasoning_details, chunk.content)
        transition == determineTransition(a.st, parsed)
    IN ProcessToolCalls(emitStreamingBlocks(a, parsed, transition, chunk.annotations),
                        chunk.tool_calls)

(***************************************************************************)
(* OpenRouter: after the read loop (streaming.go)                          *)
(***************************************************************************)
\* json.Unmarshal into a map, over the alphabet of the argument fragments
IsValidJSONObject(buf) == buf = <<"{", "}">>

\* the error value streamEvents returns: cause is "" for nil; cites are the values
\* formatted into the message (fmt.Errorf arguments), each tagged with what it is
NoError == [cause |-> "", cites |-> <<>>]
Errorf(cause, cites) == [cause |-> cause, cites |-> cites]
\* StreamEvent{Error: err}
ErrorEvOf(err) == [ErrorEv(err.cause) EXCEPT !.data = err.cites]

FinalizeThinking(a) ==
    IF a.st.CurrentType = "thinking" /\ Len(a.thinking) > 0
    THEN [a EXCEPT !.out = Append(@, BlockEv("thinking", a.st.CurrentIndex, a.thinking)),
                   !.st.CurrentIndex = @ + 1]
    ELSE a

FinalizeText(a) ==
    IF a.st.CurrentType = "text" /\ Len(a.text) > 0
    THEN [a EXCEPT !.out = Append(@, BlockEv("text", a.st.CurrentIndex, a.text)),
                   !.st.CurrentIndex = @ + 1]
    ELSE a

\* for idx := 0; idx < len(toolCallsMap); idx++ ; r = [a, err]
RECURSIVE FinalizeToolCalls(_, _)
FinalizeToolCalls(a, idx) ==
    IF idx >= Cardinality(DOMAIN a.map) THEN [a |-> a, err |-> NoError]
    ELSE IF idx \notin DOMAIN a.map THEN FinalizeToolCalls(a, idx + 1)
    ELSE LET acc == a.map[idx]
         IN IF Len(acc.Arguments) > 0 /\ ~IsValidJSONObject(acc.Arguments)
            THEN [a |-> a, err |-> Errorf("invalid tool call arguments",
                                       << <<"index", idx>>, <<"buffer", acc.Arguments>> >>)]
            ELSE FinalizeToolCalls(
                   [a EXCEPT !.out = Append(@, BlockEv("tool_use", a.st.CurrentIndex,
                                                       <<acc.ID, acc.Name, acc.Arguments>>)),
                             !.st.CurrentIndex = @ + 1],
                   idx + 1)

\* the tail of streamEvents: complete blocks, tool_use blocks, metadata
FinalizeStream(a) ==
    LET r == FinalizeToolCalls(FinalizeText(FinalizeThinking(a)), 0)
    IN IF r.err # NoError THEN r
       ELSE [a |-> [r.a EXCEPT !.out = Append(@, MetadataEv("", 0))], err |-> NoError]

\* a goroutine whose close ran before the error send instead of being deferred
GoroutineExit_CloseBeforeSend(ch, err) ==
    IF err # NoError THEN ChSend(ChClose(ch), ErrorEvOf(err)) ELSE ChClose(ch)

\* the goroutine of StreamResponse: send the error streamEvents returned, then
\* the deferred close(eventChan)
GoroutineExit(ch, err) ==
    ChClose(IF err # NoError THEN ChSend(ch, ErrorEvOf(err)) ELSE ch)

(***************************************************************************)
(* Anthropic: message.Accumulate and transformAnthropicStreamEvent         *)
(***************************************************************************)
\* message.Accumulate(event) of the SDK: r = [msg, err]
Accumulate(msg, e) ==
    CASE e.t = "message_start" -> [msg |-> [Content |-> <<>>], err |-> ""]
      [] e.t = "content_block_start" ->
            [msg |-> [msg EXCEPT !.Content = Append(@, [type |-> e.kind])], err |-> ""]
      [] e.t \in {"content_block_delta", "content_block_stop"} ->
            IF Len(msg.Content) = 0
            THEN [msg |-> msg, err |-> "failed to accumulate message"]
            ELSE [msg |-> msg, err |-> ""]
      [] OTHER -> [msg |-> msg, err |-> ""]

\* convertAnthropicBlock: only the blocks that marshal provider data can fail
convertAnthropicBlock(content, sequence, marshalOK) ==
    IF content.type # "text" /\ ~marshalOK
    THEN [block |-> EmptyEv, err |-> "marshal"]
    ELSE [block |-> BlockEv(content.type, sequence, <<>>), err |-> ""]

transformAnthropicStreamEvent(e, msg) ==
    CASE e.t = "content_block_start" ->
            DeltaEv(e.index, e.kind,
                    IF e.kind = "thinking" THEN "thinking_delta" ELSE "text_delta", <<>>)
      [] e.t = "content_block_delta" ->
            DeltaEv(e.index, "", "text_delta", <<e.index>>)
      [] e.t = "content_block_stop" ->
            IF e.index < 0 \/ e.index >= Len(msg.Content)
            THEN ErrorEv("invalid block index")
            ELSE LET r == convertAnthropicBlock(msg.Content[e.index + 1], e.index, e.marshalOK)
                 IN IF r.err # "" THEN ErrorEv("convert block") ELSE r.block
      [] OTHER -> EmptyEv

\* the send branch of the loop body's select: empty events are not sent
AnthropicForward(ch, streamEvent) ==
    IF streamEvent.ev \in {"delta", "block", "error"} THEN ChSend(ch, streamEvent) ELSE ch

\* the events the upstream may deliver
AnthropicEvents ==
    { [t |-> "message_start", index |-> 0, kind |-> "", marshalOK |-> TRUE],
      [t |-> "message_stop", index |-> 0, kind |-> "", marshalOK |-> TRUE] }
    \cup { [t |-> "content_block_start", index |-> i, kind |-> k, marshalOK |-> TRUE] :
             i \in 0..MaxBlockIdx, k \in {"text", "thinking"} }
    \cup { [t |-> "content_block_delta", index |-> i, kind |-> "", marshalOK |-> TRUE] :
             i \in 0..MaxBlockIdx }
    \cup { [t |-> "content_block_stop", index |-> i, kind |-> "", marshalOK |-> m] :
             i \in 0..MaxBlockIdx, m \in BOOLEAN }

(***************************************************************************)
(* Lorem: the scripted producer (providers/lorem/provider.go)              *)
(***************************************************************************)
BlockWords == 20        \* targetWords := 20
ToolMinTokens == 20     \* if remainingTokens < 20
SafetyBlocks == 100     \* if blockIndex > 100
MinSentence == 5        \* p.generator.Sentence(5, 15)
MaxSentence == 15
SearchJSONLen == 43     \* len of MarshalIndent({"query": "lorem ipsum dolor sit amet"})
MaxExtraWords == 1      \* bound: words generateTextWords returns beyond its least count

Min(x, y) == IF x < y THEN x ELSE y
Max(x, y) == IF x > y THEN x ELSE y

\* len(strings.Fields(generateTextWords(targetWords))): whole sentences of 5..15
\* words are added until the count reaches targetWords
WordCounts(targetWords) ==
    IF targetWords <= 0 THEN {0}
    ELSE LET lo == Max(targetWords, MinSentence)
             hi == IF targetWords <= MinSentence THEN MaxSentence
                   ELSE targetWords + MaxSentence - 1
         IN lo .. Min(hi, lo + MaxExtraWords)

\* the request parameters of a call: max_tokens, thinking, number of tools, cutoff model
LoremMaxTokens == {-1, 0, 1, 21, 60}
LoremRequests ==
    [maxTokens : LoremMaxTokens, thinkingEnabled : BOOLEAN, tools : 0..1, cutoff : BOOLEAN]

LoremLocals(req) ==
    [maxTokens |-> req.maxTokens, thinkingEnabled |-> req.thinkingEnabled,
     tools |-> req.tools, cutoff |-> req.cutoff,
     blockIndex |-> 0, totalOutputTokens |-> 0, stopReason |-> "end_turn", toolIndex |-> 0,
     phase |-> "loop", words |-> 0, wordsSent |-> 0, blockMax |-> 0, jsonPos |-> 0]

\* a producer that returns after the block loop without the metadata event
LoremFinish_NoMetadata(l, ch) == ChClose(ch)
\* after the block loop: stop reason, metadata, deferred close
LoremFinish(l, ch) ==
    LET stop == IF l.totalOutputTokens >= l.maxTokens THEN "max_tokens" ELSE l.stopReason
    IN ChClose(ChSend(ch, MetadataEv(stop, l.totalOutputTokens)))

\* a block function returned an error: send it, return, deferred close
LoremFail(ch, err) == ChClose(ChSend(ch, ErrorEv(err)))

\* which block the loop runs next: "text", "thinking", "tool", "toolskip", "skip", "exit"
LoremBranch(l) ==
    IF ~(l.totalOutputTokens < l.maxTokens) THEN "exit"
    ELSE IF l.blockIndex % 3 = 0 \/ (l.blockIndex % 3 = 1 /\ ~l.thinkingEnabled) THEN "text"
    ELSE IF l.blockIndex % 3 = 1 /\ l.thinkingEnabled THEN "thinking"
    ELSE IF l.tools > 0
         THEN (IF l.maxTokens - l.totalOutputTokens < ToolMinTokens THEN "toolskip" ELSE "tool")
    ELSE "skip"

LoremTargetWords(l) == Min(BlockWords, l.maxTokens - l.totalOutputTokens)

\* the producer still has a delta of the running block to send
LoremPending(l) ==
    \/ l.phase = "text" /\ l.wordsSent < l.words /\ ~(l.cutoff /\ l.wordsSent >= l.blockMax)
    \/ l.phase = "thinking"
    \/ l.phase = "tool" /\ l.jsonPos < SearchJSONLen

(***************************************************************************)
(* The call: StreamResponse, the caller's cancellation                     *)
(***************************************************************************)
Providers == {"openrouter", "anthropic", "lorem"}

EmptyChan == [sent |-> <<>>, closed |-> 0, late |-> 0, recv |-> 0]
DefaultRequest == [maxTokens |-> 0, thinkingEnabled |-> FALSE, tools |-> 0, cutoff |-> FALSE]

NoChunk == [annotations |-> 0, reasoning_details |-> <<>>, content |-> <<>>, tool_calls |-> <<>>]

\* the pre-stream steps of StreamResponse that can fail, in the order of the code
PreStreamFailures(p) ==
    CASE p = "openrouter" -> {"none", "validate", "build", "transport", "status"}
      [] p = "anthropic" -> {"none", "build"}
      [] OTHER -> {"none"}

\* a StreamResponse that validates the model only after the upstream request
StreamResponseResult_RequestFirst(p, supported, failure) ==
    IF failure \in {"transport", "status"}
    THEN [chan |-> "nil", err |-> "provider error", requests |-> 1]
    ELSE IF ~supported THEN [chan |-> "nil", err |-> "invalid model", requests |-> 1]
    ELSE IF failure \in {"validate", "build"}
         THEN [chan |-> "nil", err |-> "invalid request", requests |-> 0]
    ELSE [chan |-> "open", err |-> "", requests |-> IF p = "lorem" THEN 0 ELSE 1]

\* StreamResponse up to its return: supported = SupportsModel(req.Model), failure = the
\* pre-stream step that fails; the result is the (channel, error) pair returned and the
\* number of upstream requests issued
StreamResponseResult(p, supported, failure) ==
    IF ~supported THEN [chan |-> "nil", err |-> "invalid model", requests |-> 0]
    ELSE IF failure \in {"validate", "build"}
         THEN [chan |-> "nil", err |-> "invalid request", requests |-> 0]
    ELSE IF failure \in {"transport", "status"}
         THEN [chan |-> "nil", err |-> "provider error", requests |-> 1]
    ELSE [chan |-> "open", err |-> "", requests |-> IF p = "lorem" THEN 0 ELSE 1]

NotReturned == [supported |-> TRUE, chan |-> "", err |-> "", requests |-> 0]
Returned(supported, r) ==
    [supported |-> supported, chan |-> r.chan, err |-> r.err, requests |-> r.requests]

InitStream(ps) ==
    /\ provider \in ps
    /\ returned = NotReturned
    /\ pc = "call"
    /\ producers = 0
    /\ ctxDone = FALSE
    /\ cancelledLive = FALSE
    /\ eventChan = EmptyChan
    /\ state = [CurrentType |-> "", CurrentIndex |-> 0, WebSearchDone |-> FALSE]
    /\ thinkingContent = <<>>
    /\ textContent = <<>>
    /\ toolCallsMap = <<>>
    /\ nchunks = 0
    /\ lastChunk = NoChunk
    /\ message = [Content |-> <<>>]
    /\ nevents = 0
    /\ lorem \in IF provider = "lorem" THEN {LoremLocals(r) : r \in LoremRequests}
                 ELSE {LoremLocals(DefaultRequest)}

\* no message conversion is under way
NoMemory == [arr |-> <<>>, msgs |-> <<>>]
NoConversion ==
    [input |-> <<>>, layout |-> {}, backend |-> "", op |-> "", mem |-> NoMemory, output |-> <<>>]

\* no classification call has been made
NoClassification ==
    [op |-> "", err |-> <<>>, statusCode |-> 0, parsed |-> FALSE, result |-> <<>>,
     retryable |-> FALSE]

\* no predicate or validation call has been made
NoCheck == [fn |-> "", input |-> <<>>, result |-> ""]
\* GenerateResponse has not been called
NoResponse == [called |-> FALSE, err |-> "", StopReason |-> "", OutputTokens |-> 0]
\* no task uses a registry: the package variables hold their zero values
NoRegistry ==
    [kind |-> "", done |-> FALSE, m |-> 0, global |-> 0, instances |-> 0, loaded |-> 0,
     entries |-> {}, writing |-> FALSE, writer |-> 0, readers |-> {}, tasks |-> <<>>]

InitFor(ps) ==
    /\ InitStream(ps)
    /\ adapter = NoConversion
    /\ classified = NoClassification
    /\ response = NoResponse
    /\ registry = NoRegistry
    /\ checked = NoCheck


\* StreamResponse fails before streaming: unsupported model, request build error,
\* transport error or non-200 status; no channel, no goroutine
StreamResponseReject ==
    /\ pc = "call"
    /\ \E supported \in BOOLEAN, failure \in PreStreamFailures(provider) :
         LET r == StreamResponseResult(provider, supported, failure)
         IN /\ r.chan = "nil"
            /\ returned' = Returned(supported, r)
    /\ pc' = "rejected"
    /\ UNCHANGED <<provider, libVars, producers, ctxDone, cancelledLive, eventChan, orVars, anVars, lorem>>

\* StreamResponse makes the channel and starts the producer goroutine
StreamResponseStart ==
    /\ pc = "call"
    /\ LET r == StreamResponseResult(provider, TRUE, "none")
       IN /\ r.chan = "open"
          /\ returned' = Returned(TRUE, r)
    /\ pc' = "run"
    /\ producers' = producers + 1
    /\ UNCHANGED <<provider, libVars, ctxDone, cancelledLive, eventChan, orVars, anVars, lorem>>

\* the caller cancels ctx
Cancel ==
    /\ ~ctxDone
    /\ pc \in {"call", "run"}
    /\ ctxDone' = TRUE
    /\ cancelledLive' = (cancelledLive \/ (pc = "run" /\ provider = "lorem" /\ LoremPending(lorem)))
    /\ UNCHANGED <<provider, returned, libVars, pc, producers, eventChan, orVars, anVars, lorem>>

(***************************************************************************)
(* OpenRouter: streamEvents inside the goroutine of StreamResponse         *)
(***************************************************************************)
Aggregator == [st |-> state, thinking |-> thinkingContent, text |-> textContent,
               map |-> toolCallsMap, out |-> <<>>]

\* chunks with annotations / reasoning_details / content; n numbers the chunk
ContentChunks(n) ==
    { [annotations |-> a, reasoning_details |-> r, content |-> c, tool_calls |-> <<>>] :
        a \in 0..1,
        r \in { <<>>, << [type |-> "reasoning.text", text |-> << <<"r", n>> >>] >> },
        c \in { <<>>, << <<"t", n>> >> } }
    \ { [annotations |-> 0, reasoning_details |-> <<>>, content |-> <<>>, tool_calls |-> <<>>] }

ToolCallDeltas ==
    { [index |-> 0, id |-> "a", name |-> "f", arguments |-> <<>>],
      [index |-> 1, id |-> "b", name |-> "g", arguments |-> <<>>],
      [index |-> NoIndex, id |-> "a", name |-> "", arguments |-> <<"{", "}">>],
      [index |-> NoIndex, id |-> "", name |-> "", arguments |-> <<"{">>],
      [index |-> 0, id |-> "", name |-> "", arguments |-> <<"{", "}">>] }

ToolChunks ==
    { [annotations |-> 0, reasoning_details |-> <<>>, content |-> <<>>, tool_calls |-> <<tc>>] :
        tc \in ToolCallDeltas }

Chunks(n) == ContentChunks(n) \cup ToolChunks

ORRunning == provider = "openrouter" /\ pc = "run"

\* one "data: {...}" line with a choice: the whole loop body
ORChunk ==
    /\ ORRunning
    /\ nchunks < MaxChunks
    /\ \E chunk \in Chunks(nchunks + 1) :
         \E a \in ProcessChunk(Aggregator, chunk) :
            /\ state' = a.st
            /\ thinkingContent' = a.thinking
            /\ textContent' = a.text
            /\ toolCallsMap' = a.map
            /\ eventChan' = ChSendAll(eventChan, a.out)
            /\ lastChunk' = chunk
    /\ nchunks' = nchunks + 1
    /\ cancelledLive' = (cancelledLive \/ ctxDone)
    /\ UNCHANGED <<provider, returned, libVars, pc, producers, ctxDone, anVars, lorem>>

\* a line the loop skips: empty, comment, not "data: ", unparseable, no choices
ORSkipLine ==
    /\ ORRunning
    /\ nchunks < MaxChunks
    /\ nchunks' = nchunks + 1
    /\ UNCHANGED <<provider, returned, libVars, pc, producers, ctxDone, cancelledLive, eventChan, state,
                   thinkingContent, textContent, toolCallsMap, lastChunk, anVars, lorem>>

\* a data line carrying {"error": {"message": ...}}: streamEvents returns the error
ORErrorLine ==
    /\ ORRunning
    /\ eventChan' = GoroutineExit(eventChan, Errorf("openrouter streaming error", <<>>))
    /\ pc' = "done"
    /\ UNCHANGED <<provider, returned, libVars, producers, ctxDone, cancelledLive, orVars, anVars, lorem>>

\* scanner.Err() != nil: the body read failed (cancelled context or I/O error)
ORScanErr ==
    /\ ORRunning
    /\ eventChan' = GoroutineExit(eventChan,
                       Errorf(IF ctxDone THEN "context canceled" ELSE "error reading stream", <<>>))
    /\ pc' = "done"
    /\ UNCHANGED <<provider, returned, libVars, producers, ctxDone, cancelledLive, orVars, anVars, lorem>>

\* "data: [DONE]" or end of body: complete blocks, tool_use blocks, metadata
ORDone ==
    /\ ORRunning
    /\ LET r == FinalizeStream(Aggregator)
       IN /\ state' = r.a.st
          /\ eventChan' = GoroutineExit(ChSendAll(eventChan, r.a.out), r.err)
    /\ pc' = "done"
    /\ UNCHANGED <<provider, returned, libVars, producers, ctxDone, cancelledLive, thinkingContent, textContent,
                   toolCallsMap, nchunks, lastChunk, anVars, lorem>>

ORNext == ORChunk \/ ORSkipLine \/ ORErrorLine \/ ORScanErr \/ ORDone

(***************************************************************************)
(* Anthropic: the goroutine of StreamResponse                              *)
(***************************************************************************)
AnRunning == provider = "anthropic" /\ pc = "run"

\* stream.Next() delivers an event; Accumulate; transform; the select sends it
AnEvent ==
    /\ AnRunning
    /\ nevents < MaxAnEvents
    /\ \E e \in AnthropicEvents :
         LET acc == Accumulate(message, e)
         IN IF acc.err # ""
            THEN /\ eventChan' = ChClose(ChSend(eventChan, ErrorEv(acc.err)))
                 /\ pc' = "done"
                 /\ UNCHANGED message
            ELSE /\ message' = acc.msg
                 /\ eventChan' = AnthropicForward(eventChan,
                                   transformAnthropicStreamEvent(e, acc.msg))
                 /\ pc' = pc
    /\ nevents' = nevents + 1
    /\ cancelledLive' = (cancelledLive \/ ctxDone)
    /\ UNCHANGED <<provider, returned, libVars, producers, ctxDone, orVars, lorem>>

\* the same, with the select taking <-ctx.Done(): send ctx.Err() and return
AnEventCancelled ==
    /\ AnRunning
    /\ nevents < MaxAnEvents
    /\ ctxDone
    /\ \E e \in AnthropicEvents :
         LET acc == Accumulate(message, e)
         IN /\ acc.err = ""
            /\ transformAnthropicStreamEvent(e, acc.msg).ev \in {"delta", "block", "error"}
            /\ message' = acc.msg
    /\ eventChan' = ChClose(ChSend(eventChan, ErrorEv("context canceled")))
    /\ pc' = "done"
    /\ nevents' = nevents + 1
    /\ cancelledLive' = TRUE
    /\ UNCHANGED <<provider, returned, libVars, producers, ctxDone, orVars, lorem>>

\* stream.Next() is false and stream.Err() is set
AnStreamErr ==
    /\ AnRunning
    /\ eventChan' = ChClose(ChSend(eventChan,
                       ErrorEv(IF ctxDone THEN "context canceled" ELSE "anthropic streaming error")))
    /\ pc' = "done"
    /\ UNCHANGED <<provider, returned, libVars, producers, ctxDone, cancelledLive, orVars, anVars, lorem>>

\* stream.Next() is false without error: final metadata
AnEnd ==
    /\ AnRunning
    /\ eventChan' = ChClose(ChSend(eventChan, MetadataEv("", 0)))
    /\ pc' = "done"
    /\ UNCHANGED <<provider, returned, libVars, producers, ctxDone, cancelledLive, orVars, anVars, lorem>>

AnNext == AnEvent \/ AnEventCancelled \/ AnStreamErr \/ AnEnd

(***************************************************************************)
(* Lorem: the goroutine of StreamResponse                                  *)
(***************************************************************************)
LoRunning == provider = "lorem" /\ pc = "run"

LoKeep == UNCHANGED <<provider, returned, libVars, producers, ctxDone, cancelledLive, orVars, anVars>>

\* blockIndex++ and the safety check that ends an iteration of the block loop
LoremNextIteration(l, ch) ==
    IF l.blockIndex > SafetyBlocks
    THEN [l |-> [l EXCEPT !.phase = "exit"], ch |-> LoremFinish(l, ch), pc |-> "done"]
    ELSE [l |-> [l EXCEPT !.phase = "loop"], ch |-> ch, pc |-> "run"]

\* top of the block loop: pick the block, send its block-start delta
LoLoop ==
    /\ LoRunning
    /\ lorem.phase = "loop"
    /\ LET b == LoremBranch(lorem)
           t == LoremTargetWords(lorem)
       IN CASE b \in {"exit", "toolskip"} ->
                 /\ eventChan' = LoremFinish(lorem, eventChan)
                 /\ lorem' = [lorem EXCEPT !.phase = "exit"]
                 /\ pc' = "done"
            [] b = "text" ->
                 /\ eventChan' = ChSend(eventChan, DeltaEv(lorem.blockIndex, "text", "", <<>>))
                 /\ \E n \in WordCounts(IF lorem.cutoff THEN t + (t \div 2) ELSE t) :
                      lorem' = [lorem EXCEPT !.phase = "text", !.words = n, !.wordsSent = 0,
                                             !.blockMax = t]
                 /\ pc' = pc
            [] b = "thinking" ->
                 /\ eventChan' = ChSend(eventChan, DeltaEv(lorem.blockIndex, "thinking", "", <<>>))
                 /\ \E n \in WordCounts(t) :
                      lorem' = [lorem EXCEPT !.phase = "thinking", !.words = n, !.wordsSent = 0,
                                             !.blockMax = t]
                 /\ pc' = pc
            [] b = "tool" ->
                 /\ eventChan' = ChSend(eventChan,
                                   DeltaEv(lorem.blockIndex, "tool_use", "tool_call_start", <<>>))
                 /\ lorem' = [lorem EXCEPT !.phase = "tool", !.jsonPos = 0]
                 /\ pc' = pc
            [] b = "skip" ->
                 LET r == LoremNextIteration([lorem EXCEPT !.blockIndex = @ + 1], eventChan)
                 IN /\ lorem' = r.l
                    /\ eventChan' = r.ch
                    /\ pc' = r.pc
    /\ LoKeep

\* one iteration of the word loop of streamTextBlock / streamThinkingBlock
LoWord ==
    /\ LoRunning
    /\ lorem.phase \in {"text", "thinking"}
    /\ lorem.wordsSent < lorem.words
    /\ IF ctxDone
       THEN /\ eventChan' = LoremFail(eventChan, "context canceled")
            /\ lorem' = [lorem EXCEPT !.phase = "exit"]
            /\ pc' = "done"
       ELSE IF lorem.phase = "text" /\ lorem.cutoff /\ lorem.wordsSent >= lorem.blockMax
       THEN LET l == [lorem EXCEPT !.totalOutputTokens = @ + lorem.wordsSent,
                                   !.blockIndex = @ + 1,
                                   !.stopReason = "max_tokens",
                                   !.phase = "exit"]
            IN /\ eventChan' = LoremFinish(l, eventChan)
               /\ lorem' = l
               /\ pc' = "done"
       ELSE /\ eventChan' = ChSend(eventChan,
                              DeltaEv(lorem.blockIndex, "",
                                      IF lorem.phase = "text" THEN "text_delta" ELSE "thinking_delta",
                                      <<lorem.wordsSent + 1>>))
            /\ lorem' = [lorem EXCEPT !.wordsSent = @ + 1]
            /\ pc' = pc
    /\ LoKeep

\* the word loop is over: (signature delta,) return to the block loop
LoBlockEnd ==
    /\ LoRunning
    /\ lorem.phase \in {"text", "thinking"}
    /\ lorem.wordsSent = lorem.words
    /\ LET ch == IF lorem.phase = "thinking"
                 THEN ChSend(eventChan, DeltaEv(lorem.blockIndex, "", "signature_delta", <<>>))
                 ELSE eventChan
           r == LoremNextIteration([lorem EXCEPT !.totalOutputTokens = @ + lorem.wordsSent,
                                                 !.blockIndex = @ + 1], ch)
       IN /\ lorem' = r.l
          /\ eventChan' = r.ch
          /\ pc' = r.pc
    /\ LoKeep

\* one iteration of the character loop of streamToolUseBlockFromBuiltIn
LoJSON ==
    /\ LoRunning
    /\ lorem.phase = "tool"
    /\ lorem.jsonPos < SearchJSONLen
    /\ IF ctxDone
       THEN /\ eventChan' = LoremFail(eventChan, "context canceled")
            /\ lorem' = [lorem EXCEPT !.phase = "exit"]
            /\ pc' = "done"
       ELSE /\ eventChan' = ChSend(eventChan,
                              DeltaEv(lorem.blockIndex, "", "json_delta", <<lorem.jsonPos>>))
            /\ lorem' = [lorem EXCEPT !.jsonPos = @ + 1]
            /\ pc' = pc
    /\ LoKeep

\* the tool block returns its token estimate
LoToolEnd ==
    /\ LoRunning
    /\ lorem.phase = "tool"
    /\ lorem.jsonPos = SearchJSONLen
    /\ LET r == LoremNextIteration(
                   [lorem EXCEPT !.totalOutputTokens = @ + (SearchJSONLen \div 4),
                                 !.blockIndex = @ + 1,
                                 !.toolIndex = @ + 1], eventChan)
       IN /\ lorem' = r.l
          /\ eventChan' = r.ch
          /\ pc' = r.pc
    /\ LoKeep

LoNext == LoLoop \/ LoWord \/ LoBlockEnd \/ LoJSON \/ LoToolEnd

(***************************************************************************)
(* Specifications                                                          *)
(***************************************************************************)
CallNext == StreamResponseReject \/ StreamResponseStart \/ Cancel

Init == InitFor(Providers)
Next == CallNext \/ ORNext \/ AnNext \/ LoNext
Spec == Init /\ [][Next]_vars

InitOR == InitFor({"openrouter"})
NextOR == CallNext \/ ORNext
SpecOR == InitOR /\ [][NextOR]_vars

InitAnthropic == InitFor({"anthropic"})
NextAnthropic == CallNext \/ AnNext
SpecAnthropic == InitAnthropic /\ [][NextAnthropic]_vars

InitLorem == InitFor({"lorem"})
NextLorem == CallNext \/ LoNext
SpecLorem == InitLorem /\ [][NextLorem]_vars

(***************************************************************************)
(* The event sequence a consumer receives                                  *)
(***************************************************************************)
Sent == eventChan.sent
IsTerminator(e) == e.ev \in {"metadata", "error"}
Positions(P(_)) == {i \in 1..Len(Sent) : P(Sent[i])}
IsBlock(e) == e.ev = "block"
IsDelta(e) == e.ev = "delta"
IsMetadata(e) == e.ev = "metadata"
IsError(e) == e.ev = "error"
Finished == pc = "done"

\* C1: a finished stream holds exactly one terminating event (metadata or error)
\* and that event is the last one received.
C1_OneTerminatorLast ==
    Finished => /\ Len(Sent) > 0
                /\ Positions(IsTerminator) = {Len(Sent)}

\* C2: each successful StreamResponse starts exactly one producer, which closes the
\* event channel exactly once on every completion path; nothing is sent after the close.
C2_OneProducerClosesOnce ==
    /\ producers = (IF pc \in {"run", "done"} THEN 1 ELSE 0)
    /\ eventChan.closed = (IF Finished THEN 1 ELSE 0)
    /\ eventChan.late = 0
    /\ pc \in {"call", "rejected"} => Sent = <<>>

\* C2 witness: a stream that ended on the error path after events were delivered,
\* with its channel closed
C2_Witness ==
    /\ Finished
    /\ producers = 1
    /\ eventChan.closed = 1
    /\ eventChan.late = 0
    /\ Len(Sent) > 1
    /\ IsError(Sent[Len(Sent)])

\* C3 (anthropic): an error event is the final event: nothing is sent after it and
\* the channel is closed.
C3_ErrorIsFinal ==
    provider = "anthropic" =>
        \A i \in Positions(IsError) : i = Len(Sent) /\ eventChan.closed = 1

\* C4: a stream cancelled while the producer still had events to deliver ends with an
\* error event carrying the cancellation cause, and carries no metadata event.
C4_CancelEndsInError ==
    (Finished /\ cancelledLive) =>
        /\ Len(Sent) > 0
        /\ Sent[Len(Sent)] = ErrorEv("context canceled")
        /\ Positions(IsMetadata) = {}

(***************************************************************************)
(* OpenRouter claims                                                       *)
(***************************************************************************)
\* the events sent by the step under consideration
NewEvents == SubSeq(eventChan'.sent, Len(eventChan.sent) + 1, Len(eventChan'.sent))
\* the step is the loop body handling a chunk that carries a text extract
TextChunkHandled ==
    /\ provider = "openrouter"
    /\ nchunks' = nchunks + 1
    /\ lastChunk'.content = << <<"t", nchunks + 1>> >>
\* the step is the loop body handling a chunk that carries a reasoning extract
ReasoningChunkHandled ==
    /\ provider = "openrouter"
    /\ nchunks' = nchunks + 1
    /\ extractThinkingInfo(lastChunk'.reasoning_details) = << <<"r", nchunks + 1>> >>

\* C5 (openrouter): for every complete Block with sequence k, every delta for k
\* precedes it and every delta or Block for an index above k follows it.
C5_DeltasBeforeBlockThenLater ==
    provider = "openrouter" =>
        \A j \in Positions(IsBlock) : \A i \in 1..Len(Sent) :
            /\ (IsDelta(Sent[i]) /\ Sent[i].idx = Sent[j].idx) => i < j
            /\ ((IsDelta(Sent[i]) \/ IsBlock(Sent[i])) /\ Sent[i].idx > Sent[j].idx) => i > j

\* C6 (openrouter): the complete Blocks of a stream carry pairwise distinct sequence
\* values that are exactly 0..n-1.
C6_SequencesArePrefix ==
    (provider = "openrouter" /\ Finished) =>
        LET B == Positions(IsBlock)
        IN /\ \A i, j \in B : i # j => Sent[i].idx # Sent[j].idx
           /\ {Sent[i].idx : i \in B} = 0..(Cardinality(B) - 1)

\* the first delta of the run of deltas for Sent[i].idx that position i belongs to
\* (a run ends at the complete Block of that index)
RunStart(i) ==
    CHOOSE f \in 1..i :
        /\ IsDelta(Sent[f]) /\ Sent[f].idx = Sent[i].idx
        /\ \A m \in f..i : ~(IsBlock(Sent[m]) /\ Sent[m].idx = Sent[i].idx)
        /\ \A g \in 1..(f - 1) :
              (IsDelta(Sent[g]) /\ Sent[g].idx = Sent[i].idx) =>
                  \E m \in g..f : IsBlock(Sent[m]) /\ Sent[m].idx = Sent[i].idx
\* delta d carries or implies kind k
AgreesWithKind(d, k) ==
    /\ d.kind \in {"", k}
    /\ d.dkind \in {"tool_call_start", "json_delta"} => k = "tool_use"
    /\ d.dkind = "text_delta" => k \in {"text", "thinking"}

\* C7 (openrouter): the first delta of a block index carries the block kind and no
\* later delta of that index carries or implies another kind before the index's Block.
C7_KindFixedPerIndex ==
    provider = "openrouter" =>
        \A i \in Positions(IsDelta) :
            /\ Sent[RunStart(i)].kind # ""
            /\ AgreesWithKind(Sent[i], Sent[RunStart(i)].kind)

\* C8 (openrouter): a chunk with a text extract arriving while the current kind is
\* thinking emits a complete thinking Block for the current index, advances the index
\* by one and emits the text block-start at the new index before any text delta.
C8_TextClosesThinking ==
    [][ (TextChunkHandled /\ state.CurrentType = "thinking") =>
           /\ state'.CurrentIndex = state.CurrentIndex + 1
           /\ \E i, j \in 1..Len(NewEvents) :
                /\ i < j
                /\ IsBlock(NewEvents[i]) /\ NewEvents[i].kind = "thinking"
                /\ NewEvents[i].idx = state.CurrentIndex
                /\ NewEvents[j] = DeltaEv(state.CurrentIndex + 1, "text", "text_delta", <<>>)
                /\ \A k \in 1..Len(NewEvents) :
                      NewEvents[k].data = lastChunk'.content => k > j
      ]_vars

\* the deltas among the new events that carry text t
Carrying(t) == {k \in 1..Len(NewEvents) : IsDelta(NewEvents[k]) /\ NewEvents[k].data = t}
\* the new delta at k lies in a block of kind kd: the latest block-start before it,
\* for its index, has that kind
InBlockOfKind(k, kd) ==
    LET p == Len(eventChan.sent) + k
        starts == {q \in 1..p : /\ IsBlockStart(eventChan'.sent[q])
                                /\ eventChan'.sent[q].idx = eventChan'.sent[p].idx}
    IN /\ starts # {}
       /\ eventChan'.sent[CHOOSE q \in starts : \A r \in starts : r <= q].kind = kd

\* C9 (openrouter): every non-empty text or reasoning extract yields exactly one delta
\* carrying it, at the index of its block, and is appended to the block's accumulator.
C9_EveryExtractYieldsDelta ==
    [][ /\ TextChunkHandled =>
             /\ Cardinality(Carrying(lastChunk'.content)) = 1
             /\ \A k \in Carrying(lastChunk'.content) : InBlockOfKind(k, "text")
             /\ textContent' = textContent \o lastChunk'.content
        /\ ReasoningChunkHandled =>
             LET r == extractThinkingInfo(lastChunk'.reasoning_details)
             IN /\ Cardinality(Carrying(r)) = 1
                /\ \A k \in Carrying(r) : InBlockOfKind(k, "thinking")
                /\ thinkingContent' = thinkingContent \o r
      ]_vars

\* C10 (openrouter): when the stream ends with metadata, every text or thinking block
\* that was started has exactly one complete Block before the metadata, and these
\* Blocks come in increasing index order.
C10_OpenedBlocksCompleted ==
    (provider = "openrouter" /\ Finished /\ Len(Sent) > 0 /\ IsMetadata(Sent[Len(Sent)])) =>
        LET B == {j \in Positions(IsBlock) : Sent[j].kind \in {"text", "thinking"}}
        IN /\ \A i \in Positions(IsBlockStart) :
                Sent[i].kind \in {"text", "thinking"} =>
                    /\ Cardinality({j \in B : /\ Sent[j].kind = Sent[i].kind
                                              /\ Sent[j].idx = Sent[i].idx}) = 1
                    /\ \A j \in B : (Sent[j].kind = Sent[i].kind /\ Sent[j].idx = Sent[i].idx)
                                        => (i < j /\ j < Len(Sent))
           /\ \A j1, j2 \in B : j1 < j2 => Sent[j1].idx < Sent[j2].idx

(***************************************************************************)
(* OpenRouter: tool calls at the terminal signal, web-search pair          *)
(***************************************************************************)
\* the accumulated argument buffer parses: empty buffers are not parsed at all
BufferParses(acc) == Len(acc.Arguments) = 0 \/ IsValidJSONObject(acc.Arguments)
ToolUseBlocks == {j \in Positions(IsBlock) : Sent[j].kind = "tool_use"}
ToolCallStarts == {i \in Positions(IsDelta) : Sent[i].dkind = "tool_call_start"}
EndedWithMetadata == Finished /\ Len(Sent) > 0 /\ IsMetadata(Sent[Len(Sent)])

\* C11 (openrouter): at a terminal signal with every argument buffer valid, each tool
\* call that was started has exactly one complete tool_use Block carrying its id, name
\* and input, after the text/thinking Blocks and before the metadata event.
C11_EveryToolCallCompleted ==
    (/\ provider = "openrouter"
     /\ EndedWithMetadata
     /\ \A idx \in DOMAIN toolCallsMap : BufferParses(toolCallsMap[idx])) =>
        /\ Cardinality(ToolUseBlocks) = Cardinality(ToolCallStarts)
        /\ \A idx \in DOMAIN toolCallsMap :
              \E j \in ToolUseBlocks :
                 Sent[j].data = <<toolCallsMap[idx].ID, toolCallsMap[idx].Name,
                                  toolCallsMap[idx].Arguments>>
        /\ \A j \in ToolUseBlocks :
              /\ j < Len(Sent)
              /\ \A i \in Positions(IsBlock) :
                    Sent[i].kind \in {"text", "thinking"} => i < j

\* C12 (openrouter): a finished stream in which some tool call holds an argument buffer
\* that is not valid JSON ends with an error event, holds no tool_use Block for that
\* call and no metadata event.
C12_MalformedArgumentsEndInError ==
    (provider = "openrouter" /\ Finished) =>
        \A idx \in DOMAIN toolCallsMap :
            ~BufferParses(toolCallsMap[idx]) =>
                /\ Len(Sent) > 0
                /\ IsError(Sent[Len(Sent)])
                /\ Positions(IsMetadata) = {}
                /\ \A j \in ToolUseBlocks :
                      Sent[j].data # <<toolCallsMap[idx].ID, toolCallsMap[idx].Name,
                                       toolCallsMap[idx].Arguments>>

\* the sentinel errors and error types errors.Is / errors.As find in the chain of the
\* error built for each cause
ErrorChain(cause) ==
    CASE cause = "invalid tool call arguments" -> {"*json.SyntaxError"}
      [] cause = "context canceled" -> {"context.Canceled"}
      [] cause = "invalid model" -> {"*ModelError", "ErrInvalidModel"}
      [] OTHER -> {}
IsInvalidRequest(chain) ==
    chain \cap {"ErrInvalidRequest", "ErrInvalidModel", "ErrUnsupportedFeature",
                "ErrUnsupportedTool", "*ValidationError"} # {}

\* C13 (openrouter): the error event sent for malformed tool-call arguments is
\* classified invalid_request and cites the id of the offending call and its buffer.
C13_MalformedArgumentsInvalidRequest ==
    provider = "openrouter" =>
        \A i \in Positions(IsError) :
            Sent[i].kind = "invalid tool call arguments" =>
                /\ IsInvalidRequest(ErrorChain(Sent[i].kind))
                /\ \E idx \in DOMAIN toolCallsMap :
                      /\ ~BufferParses(toolCallsMap[idx])
                      /\ \E k \in 1..Len(Sent[i].data) :
                            /\ Sent[i].data[k][1] = "id"
                            /\ Sent[i].data[k][2] = toolCallsMap[idx].ID
                      /\ \E k \in 1..Len(Sent[i].data) :
                            /\ Sent[i].data[k][1] = "buffer"
                            /\ Sent[i].data[k][2] = toolCallsMap[idx].Arguments

IsWebSearchBlock(e) == IsBlock(e) /\ e.kind \in {"web_search_use", "web_search_result"}

\* C14 (openrouter): the first chunk with annotations emits the web-search pair at the
\* current index and advances the index past it, so a block opened next has a greater
\* index; annotations of later chunks emit nothing and leave the index alone.
C14_WebSearchPairOnce ==
    [][ (provider = "openrouter" /\ nchunks' = nchunks + 1 /\ lastChunk'.annotations = 1) =>
          IF state.WebSearchDone
          THEN /\ \A k \in 1..Len(NewEvents) : ~IsWebSearchBlock(NewEvents[k])
               /\ (/\ lastChunk'.reasoning_details = <<>>
                   /\ lastChunk'.content = <<>>
                   /\ lastChunk'.tool_calls = <<>>) => state'.CurrentIndex = state.CurrentIndex
          ELSE /\ Len(NewEvents) >= 2
               /\ NewEvents[1] = BlockEv("web_search_use", state.CurrentIndex, <<>>)
               /\ NewEvents[2] = BlockEv("web_search_result", state.CurrentIndex + 1, <<>>)
               /\ \A k \in 3..Len(NewEvents) : ~IsWebSearchBlock(NewEvents[k])
               /\ state'.WebSearchDone
               /\ state'.CurrentIndex >= state.CurrentIndex + 2
               /\ \A k \in 3..Len(NewEvents) :
                     IsBlockStart(NewEvents[k]) => NewEvents[k].idx > state.CurrentIndex + 1
      ]_vars

(***************************************************************************)
(* The bounded channel: producer's blocking sends and the consumer         *)
(***************************************************************************)
\* the consumer's loop  for event := range eventChan : one receive
Receive ==
    /\ pc \in {"run", "done"}
    /\ ChanLen(eventChan) > 0
    /\ eventChan' = [eventChan EXCEPT !.recv = @ + 1]
    /\ UNCHANGED <<provider, returned, libVars, pc, producers, ctxDone, cancelledLive, orVars, anVars,
                   lorem>>

\* eventChan <- e blocks while the buffer holds ChanCap events: the step that sends
\* is enabled only when the event fits
BlockingSend == ChanLen(eventChan') <= ChanCap

LoNextBlocking == LoNext /\ BlockingSend

InitLoremChan == InitFor({"lorem"})
NextLoremChan == CallNext \/ LoNextBlocking \/ Receive
SpecLoremChan == InitLoremChan /\ [][NextLoremChan]_vars

\* the deltas the running lorem block has sent since its block-start delta
LastBlockStart == CHOOSE i \in Positions(IsBlockStart) : \A j \in Positions(IsBlockStart) : j <= i
GeneratedInBlock ==
    IF lorem.phase \in {"text", "thinking"} THEN lorem.wordsSent
    ELSE IF lorem.phase = "tool" THEN lorem.jsonPos
    ELSE 0

C16_UnsupportedModelFailsFast ==
    (pc # "call" /\ ~returned.supported) =>
        /\ pc = "rejected"
        /\ returned.chan = "nil"
        /\ "ErrInvalidModel" \in ErrorChain(returned.err)
        /\ returned.requests = 0
        /\ producers = 0
        /\ Sent = <<>>
        /\ eventChan.closed = 0

\* C16 witness: a call with an unsupported model has returned
C16_Witness ==
    /\ pc = "rejected"
    /\ ~returned.supported
    /\ returned.err = "invalid model"

(***************************************************************************)
(* Message conversion: cross-provider split, tool-result split, merge      *)
(***************************************************************************)
MaxMsgs == 2      \* bound: messages in an input list
MaxBlocks == 3    \* bound: blocks in an input list, over all its messages

\* a string is a sequence of tokens; these tokens are white space
WhiteSpace == {" ", "\n\n"}
Words == <<"a", "b", "c", "d", "e", "f", "g">>

BlockKinds == {"server_tool_use", "tool_use", "text", "tool_result"}

\* a Block: uid tells blocks apart (pointer identity); Provider "" is a nil Provider;
\* server_tool_use is a provider-side tool_use made by another backend
MkBlock(kind, uid, name, text) ==
    [uid |-> uid,
     BlockType |-> IF kind = "server_tool_use" THEN "tool_use" ELSE kind,
     ExecutionSide |-> IF kind = "server_tool_use" THEN "server"
                       ELSE IF kind = "tool_use" THEN "client" ELSE "",
     Provider |-> IF kind = "server_tool_use" THEN "google" ELSE "",
     ToolName |-> IF kind \in {"server_tool_use", "tool_use"} THEN name ELSE "",
     ToolUseID |-> <<>>,
     TextContent |-> IF kind = "text" THEN text ELSE <<>>]
Message(role, blocks) == [Role |-> role, Blocks |-> blocks]

IsToolUseBlock(b) == b.BlockType = "tool_use"
IsServerSideTool(b) == b.ExecutionSide = "server"
IsFromDifferentProvider(b, currentProvider) == b.Provider # "" /\ b.Provider # currentProvider
IsCrossProviderTool(b, currentProvider) ==
    IsToolUseBlock(b) /\ IsServerSideTool(b) /\ IsFromDifferentProvider(b, currentProvider)

\* strings.TrimSpace
RECURSIVE TrimLeft(_)
TrimLeft(str) ==
    IF str # <<>> /\ Head(str) \in WhiteSpace THEN TrimLeft(Tail(str)) ELSE str
RECURSIVE TrimRight(_)
TrimRight(str) ==
    IF str # <<>> /\ str[Len(str)] \in WhiteSpace
    THEN TrimRight(SubSeq(str, 1, Len(str) - 1)) ELSE str
TrimSpace(str) == TrimRight(TrimLeft(str))

\* a lookahead that takes every text block up to the next non-text block
FindToolResultBlocks_AllText(blocks, toolUseIndex) ==
    LET run == {j \in (toolUseIndex + 1)..Len(blocks) :
                   \A k \in (toolUseIndex + 1)..j : blocks[k].BlockType = "text"}
        n == Cardinality(run)
    IN [results |-> SubSeq(blocks, toolUseIndex + 1, toolUseIndex + n), consumed |-> n]
\* FindToolResultBlocks: blocks are indexed from 1 here
FindToolResultBlocks(blocks, toolUseIndex) ==
    IF toolUseIndex + 1 <= Len(blocks) /\ blocks[toolUseIndex + 1].BlockType = "text"
    THEN [results |-> <<blocks[toolUseIndex + 1]>>, consumed |-> 1]
    ELSE [results |-> <<>>, consumed |-> 0]

RECURSIVE WriteResults(_)
WriteResults(blocks) ==
    IF blocks = <<>> THEN <<>>
    ELSE Head(blocks).TextContent \o <<"\n\n">> \o WriteResults(Tail(blocks))
FormatToolResults(blocks) ==
    IF blocks = <<>> THEN <<"No results found.">>
    ELSE TrimSpace(<<"Tool results:", "\n\n">> \o WriteResults(blocks))

\* the synthetic text block of a message the splitter makes up (Sequence 0)
SyntheticText(text) ==
    [uid |-> 0, BlockType |-> "text", ExecutionSide |-> "", Provider |-> "", ToolName |-> "",
     ToolUseID |-> <<>>, TextContent |-> text]
UsedToolText(toolName) ==
    <<"I used the ", IF toolName = "" THEN "search" ELSE toolName,
      " tool to help answer your question.">>

\* the inner loop of SplitMessagesAtCrossProviderTool over msg.Blocks, from index i
RECURSIVE SplitAssistantBlocks(_, _, _, _, _)
SplitAssistantBlocks(blocks, i, currentBlocks, result, currentProvider) ==
    IF i > Len(blocks)
    THEN IF Len(currentBlocks) > 0 THEN Append(result, Message("assistant", currentBlocks))
         ELSE result
    ELSE IF IsCrossProviderTool(blocks[i], currentProvider)
    THEN LET closed == IF Len(currentBlocks) > 0
                       THEN Append(result, Message("assistant", currentBlocks)) ELSE result
             found == FindToolResultBlocks(blocks, i)
             out == closed \o
                    << Message("assistant", <<SyntheticText(UsedToolText(blocks[i].ToolName))>>),
                       Message("user", <<SyntheticText(FormatToolResults(found.results))>>) >>
         IN SplitAssistantBlocks(blocks, i + found.consumed + 1, <<>>, out, currentProvider)
    ELSE SplitAssistantBlocks(blocks, i + 1, Append(currentBlocks, blocks[i]), result,
                              currentProvider)

RECURSIVE SplitMessagesAtCrossProviderTool(_, _)
SplitMessagesAtCrossProviderTool(messages, currentProvider) ==
    IF messages = <<>> THEN <<>>
    ELSE LET msg == Head(messages)
             needsSplit == \E k \in 1..Len(msg.Blocks) :
                              IsCrossProviderTool(msg.Blocks[k], currentProvider)
             head == IF msg.Role # "assistant" \/ ~needsSplit THEN <<msg>>
                     ELSE SplitAssistantBlocks(msg.Blocks, 1, <<>>, <<>>, currentProvider)
         IN head \o SplitMessagesAtCrossProviderTool(Tail(messages), currentProvider)

\* a split loop that keeps the accumulated blocks after emitting them
RECURSIVE SplitAtToolResultBlocks_NoReset(_, _, _)
SplitAtToolResultBlocks_NoReset(blocks, currentBlocks, result) ==
    IF blocks = <<>>
    THEN IF Len(currentBlocks) > 0 THEN Append(result, Message("assistant", currentBlocks))
         ELSE result
    ELSE IF Head(blocks).BlockType = "tool_result"
    THEN LET closed == IF Len(currentBlocks) > 0
                       THEN Append(result, Message("assistant", currentBlocks)) ELSE result
         IN SplitAtToolResultBlocks_NoReset(Tail(blocks), currentBlocks,
                                            Append(closed, Message("user", <<Head(blocks)>>)))
    ELSE SplitAtToolResultBlocks_NoReset(Tail(blocks), Append(currentBlocks, Head(blocks)),
                                         result)
\* the inner loop of splitMessagesAtToolResults over msg.Blocks
RECURSIVE SplitAtToolResultBlocks(_, _, _)
SplitAtToolResultBlocks(blocks, currentBlocks, result) ==
    IF blocks = <<>>
    THEN IF Len(currentBlocks) > 0 THEN Append(result, Message("assistant", currentBlocks))
         ELSE result
    ELSE IF Head(blocks).BlockType = "tool_result"
    THEN LET closed == IF Len(currentBlocks) > 0
                       THEN Append(result, Message("assistant", currentBlocks)) ELSE result
         IN SplitAtToolResultBlocks(Tail(blocks), <<>>,
                                    Append(closed, Message("user", <<Head(blocks)>>)))
    ELSE SplitAtToolResultBlocks(Tail(blocks), Append(currentBlocks, Head(blocks)), result)

RECURSIVE splitMessagesAtToolResults(_)
splitMessagesAtToolResults(messages) ==
    IF messages = <<>> THEN <<>>
    ELSE LET msg == Head(messages)
             head == IF msg.Role # "assistant" THEN <<msg>>
                     ELSE SplitAtToolResultBlocks(msg.Blocks, <<>>, <<>>)
         IN head \o splitMessagesAtToolResults(Tail(messages))

\* Go slices: the Blocks of the messages in `shared` are carved, in message order, out of
\* one array (arr[a:b], so the capacity of each reaches the end of arr); every other
\* message has an array of its own with no spare capacity. A slice is [off, len, own]:
\* off >= 0 places it in the shared array, off = -1 gives its own contents in `own`
RECURSIVE Flatten(_)
Flatten(seqs) == IF seqs = <<>> THEN <<>> ELSE Head(seqs) \o Flatten(Tail(seqs))
SharedArray(messages, shared) ==
    Flatten([k \in 1..Len(messages) |-> IF k \in shared THEN messages[k].Blocks ELSE <<>>])
SliceOf(messages, shared, k) ==
    IF k \in shared
    THEN [off |-> Len(SharedArray(SubSeq(messages, 1, k - 1), shared)),
          len |-> Len(messages[k].Blocks), own |-> <<>>]
    ELSE [off |-> -1, len |-> Len(messages[k].Blocks), own |-> messages[k].Blocks]
View(arr, slice) ==
    IF slice.off >= 0 THEN SubSeq(arr, slice.off + 1, slice.off + slice.len) ELSE slice.own
\* append(slice, xs...): written in place when the capacity allows, else into a new array
GoAppend(arr, slice, xs) ==
    IF slice.off >= 0 /\ slice.len + Len(xs) <= Len(arr) - slice.off
    THEN [arr |-> [p \in 1..Len(arr) |->
                     IF p > slice.off + slice.len /\ p <= slice.off + slice.len + Len(xs)
                     THEN xs[p - slice.off - slice.len] ELSE arr[p]],
          slice |-> [slice EXCEPT !.len = @ + Len(xs)]]
    ELSE [arr |-> arr,
          slice |-> [off |-> -1, len |-> slice.len + Len(xs), own |-> View(arr, slice) \o xs]]

\* a message list in memory: the shared array and the messages with their block slices
MemList(messages, shared) ==
    [arr |-> SharedArray(messages, shared),
     msgs |-> [k \in 1..Len(messages) |->
                 [Role |-> messages[k].Role, Blocks |-> SliceOf(messages, shared, k)]]]
Values(mem) ==
    [k \in 1..Len(mem.msgs) |-> Message(mem.msgs[k].Role, View(mem.arr, mem.msgs[k].Blocks))]
\* messages whose block slices were built by the function itself
Owned(messages) ==
    [k \in 1..Len(messages) |->
        [Role |-> messages[k].Role,
         Blocks |-> [off |-> -1, len |-> Len(messages[k].Blocks), own |-> messages[k].Blocks]]]

\* the loop of mergeConsecutiveSameRoleMessages from index i, with the message in hand
RECURSIVE MergeFrom(_, _, _, _, _)
MergeFrom(msgs, i, current, merged, arr) ==
    IF i > Len(msgs) THEN [msgs |-> Append(merged, current), arr |-> arr]
    ELSE IF msgs[i].Role = current.Role
    THEN LET r == GoAppend(arr, current.Blocks, View(arr, msgs[i].Blocks))
         IN MergeFrom(msgs, i + 1, [current EXCEPT !.Blocks = r.slice], merged, r.arr)
    ELSE MergeFrom(msgs, i + 1, msgs[i], Append(merged, current), arr)
MergeInMemory(mem) ==
    IF Len(mem.msgs) <= 1 THEN mem
    ELSE MergeFrom(mem.msgs, 2, mem.msgs[1], <<>>, mem.arr)
\* the returned messages, with their blocks as they are in memory at the return
mergeConsecutiveSameRoleMessages(messages, shared) ==
    Values(MergeInMemory(MemList(messages, shared)))

\* splitMessagesAtToolResults on a list in memory: other roles keep their slices
SplitInMemory(mem) ==
    [arr |-> mem.arr,
     msgs |-> Flatten([k \in 1..Len(mem.msgs) |->
                 IF mem.msgs[k].Role # "assistant" THEN <<mem.msgs[k]>>
                 ELSE Owned(SplitAtToolResultBlocks(View(mem.arr, mem.msgs[k].Blocks),
                                                    <<>>, <<>>))])]

\* a split that stops at the first tool_result and leaves the rest in one message
RECURSIVE OpenRouterSplitAtToolResultBlocks_FirstOnly(_, _, _)
OpenRouterSplitAtToolResultBlocks_FirstOnly(blocks, currentBlocks, result) ==
    IF blocks = <<>>
    THEN IF Len(currentBlocks) > 0 THEN Append(result, Message("assistant", currentBlocks))
         ELSE result
    ELSE IF Head(blocks).BlockType = "tool_result"
    THEN LET closed == IF Len(currentBlocks) > 0
                       THEN Append(result, Message("assistant", currentBlocks)) ELSE result
             out == Append(closed, Message("tool", <<Head(blocks)>>))
         IN IF Tail(blocks) = <<>> THEN out
            ELSE Append(out, Message("assistant", Tail(blocks)))
    ELSE OpenRouterSplitAtToolResultBlocks_FirstOnly(Tail(blocks),
                                                     Append(currentBlocks, Head(blocks)), result)
\* providers/openrouter: the same split with the tool_result messages in role "tool"
RECURSIVE OpenRouterSplitAtToolResultBlocks(_, _, _)
OpenRouterSplitAtToolResultBlocks(blocks, currentBlocks, result) ==
    IF blocks = <<>>
    THEN IF Len(currentBlocks) > 0 THEN Append(result, Message("assistant", currentBlocks))
         ELSE result
    ELSE IF Head(blocks).BlockType = "tool_result"
    THEN LET closed == IF Len(currentBlocks) > 0
                       THEN Append(result, Message("assistant", currentBlocks)) ELSE result
         IN OpenRouterSplitAtToolResultBlocks(Tail(blocks), <<>>,
                                              Append(closed, Message("tool", <<Head(blocks)>>)))
    ELSE OpenRouterSplitAtToolResultBlocks(Tail(blocks), Append(currentBlocks, Head(blocks)),
                                           result)
OpenRouterSplitInMemory(mem) ==
    [arr |-> mem.arr,
     msgs |-> Flatten([k \in 1..Len(mem.msgs) |->
                 IF mem.msgs[k].Role # "assistant" THEN <<mem.msgs[k]>>
                 ELSE Owned(OpenRouterSplitAtToolResultBlocks(
                                View(mem.arr, mem.msgs[k].Blocks), <<>>, <<>>))])]
\* providers/openrouter has its own copy of the merge
RECURSIVE OpenRouterMergeFrom(_, _, _, _, _)
OpenRouterMergeFrom(msgs, i, current, merged, arr) ==
    IF i > Len(msgs) THEN [msgs |-> Append(merged, current), arr |-> arr]
    ELSE IF msgs[i].Role = current.Role
    THEN LET r == GoAppend(arr, current.Blocks, View(arr, msgs[i].Blocks))
         IN OpenRouterMergeFrom(msgs, i + 1, [current EXCEPT !.Blocks = r.slice], merged,
                                r.arr)
    ELSE OpenRouterMergeFrom(msgs, i + 1, msgs[i], Append(merged, current), arr)
OpenRouterMergeInMemory(mem) ==
    IF Len(mem.msgs) <= 1 THEN mem
    ELSE OpenRouterMergeFrom(mem.msgs, 2, mem.msgs[1], <<>>, mem.arr)

\* the split followed by the merge, as each adapter runs them
SplitThenMerge(backend, mem) ==
    IF backend = "openrouter" THEN OpenRouterMergeInMemory(OpenRouterSplitInMemory(mem))
    ELSE MergeInMemory(SplitInMemory(mem))

CurrentProvider == "anthropic"
\* the execution side of a tool the provider itself runs, as the converter names it
ExecutionSideProvider == "provider"

\* tool call ids are sequences of characters; <<>> is a missing or empty tool_use_id
ValidIDChars == {"a", "c", "l", "x", "y", "1", "_", "-"}
InvalidIDChars == {" ", ".", ":"}
\* a sanitizer that replaces the first invalid character only
sanitizeToolUseID_FirstOnly(id) ==
    [k \in 1..Len(id) |->
        IF id[k] \notin ValidIDChars /\ \A j \in 1..(k - 1) : id[j] \in ValidIDChars
        THEN "_" ELSE id[k]]
\* invalidToolIDChars.ReplaceAllString(id, "_")
sanitizeToolUseID(id) ==
    [k \in 1..Len(id) |-> IF id[k] \in ValidIDChars THEN id[k] ELSE "_"]

\* one block of convertToAnthropicMessages: an error or the blocks appended for it; `from`
\* is the input block. The blocks of the model carry no ProviderData, so none is replayed
\* and a thinking block has no signature.
ConvertAnthropicBlock(block) ==
    IF /\ block.BlockType = "tool_use" /\ block.ExecutionSide # ""
       /\ block.ExecutionSide = ExecutionSideProvider
       /\ IsFromDifferentProvider(block, CurrentProvider)
    THEN [err |-> "unexpected cross-provider provider-side tool", out |-> <<>>]
    ELSE IF block.BlockType = "text"
    THEN [err |-> "", out |-> <<[type |-> "text", id |-> <<>>, from |-> block.uid]>>]
    ELSE IF block.BlockType = "tool_use"
    THEN IF block.ToolUseID = <<>>
         THEN [err |-> "tool_use block missing tool_use_id", out |-> <<>>]
         ELSE IF block.ToolName = ""
         THEN [err |-> "tool_use block missing tool_name", out |-> <<>>]
         ELSE [err |-> "",
               out |-> <<[type |-> "tool_use", id |-> sanitizeToolUseID(block.ToolUseID),
                          from |-> block.uid]>>]
    ELSE IF block.BlockType = "tool_result"
    THEN IF block.ToolUseID = <<>>
         THEN [err |-> "tool_result block missing tool_use_id", out |-> <<>>]
         ELSE [err |-> "",
               out |-> <<[type |-> "tool_result", id |-> sanitizeToolUseID(block.ToolUseID),
                          from |-> block.uid]>>]
    ELSE IF block.BlockType = "thinking"
    THEN [err |-> "", out |-> <<[type |-> "text", id |-> <<>>, from |-> block.uid]>>]
    ELSE [err |-> "", out |-> <<>>]
\* the loop over mergedMessages from message i, block j: the first error ends it
RECURSIVE ConvertAnthropicFrom(_, _, _, _, _)
ConvertAnthropicFrom(mergedMessages, i, j, blocks, result) ==
    IF i > Len(mergedMessages) THEN [err |-> "", result |-> result]
    ELSE IF j > Len(mergedMessages[i].Blocks)
    THEN IF mergedMessages[i].Role \notin {"user", "assistant"}
         THEN [err |-> "unsupported role", result |-> <<>>]
         ELSE ConvertAnthropicFrom(mergedMessages, i + 1, 1, <<>>,
                                   Append(result, Message(mergedMessages[i].Role, blocks)))
    ELSE LET c == ConvertAnthropicBlock(mergedMessages[i].Blocks[j])
         IN IF c.err # "" THEN [err |-> c.err, result |-> <<>>]
            ELSE ConvertAnthropicFrom(mergedMessages, i, j + 1, blocks \o c.out, result)
\* convertToAnthropicMessages, for message lists whose block slices share no array
convertToAnthropicMessages(messages) ==
    LET processedMessages == SplitMessagesAtCrossProviderTool(messages, CurrentProvider)
        splitMessages == splitMessagesAtToolResults(processedMessages)
        mergedMessages == mergeConsecutiveSameRoleMessages(splitMessages, {})
    IN ConvertAnthropicFrom(mergedMessages, 1, 1, <<>>, <<>>)

\* the message lists handed to the conversion functions: the named ones below and every
\* list of up to MaxMsgs messages holding up to MaxBlocks blocks in all; cuts[i] is the
\* position of the last block of message i
Roles == {"user", "assistant"}
Cuts(m, n) == {c \in [1..m -> 0..n] : c[m] = n /\ \A i \in 1..(m - 1) : c[i] <= c[i + 1]}
MkInput(roles, kinds, cuts) ==
    [i \in 1..Len(roles) |->
        LET prev == IF i = 1 THEN 0 ELSE cuts[i - 1]
        IN Message(roles[i],
                   [j \in 1..(cuts[i] - prev) |->
                       MkBlock(kinds[prev + j], prev + j, "web_search", <<Words[prev + j]>>)])]
\* [foreign provider-side tool_use, text A, text B] in one assistant message, for several
\* tool names and result texts
ResultTexts == { <<"a">>, <<"a", " ">>, <<" ", "a">>, <<"a", "\n\n", "a">>, <<>> }
CrossProviderExamples ==
    { << Message("assistant", << MkBlock("server_tool_use", 1, name, <<>>),
                                 MkBlock("text", 2, "", A),
                                 MkBlock("text", 3, "", <<"b">>) >>) >> :
        name \in {"web_search", ""}, A \in ResultTexts }
\* [tool_use A, tool_result A, thinking, tool_use B, tool_result B]
MultipleRoundsExample ==
    << Message("assistant", << MkBlock("tool_use", 1, "web_search", <<>>),
                               MkBlock("tool_result", 2, "", <<>>),
                               MkBlock("thinking", 3, "", <<>>),
                               MkBlock("tool_use", 4, "web_search", <<>>),
                               MkBlock("tool_result", 5, "", <<>>) >>) >>
\* user, user, assistant, assistant, user, one text block each
MultipleGroupsExample ==
    [k \in 1..5 |->
        Message(IF k \in {3, 4} THEN "assistant" ELSE "user",
                <<MkBlock("text", k, "", <<Words[k]>>)>>)]
\* conversations of one tool_use and one tool_result with their ids: in two messages, in
\* one assistant message, and with the result first
MaxIdLen == 2     \* bound: characters in a generated tool call id
IdChars == {"a", "_", " "}
Ids == UNION {[1..k -> IdChars] : k \in 0..MaxIdLen}
ToolUseWithID(uid, id) == [MkBlock("tool_use", uid, "t", <<>>) EXCEPT !.ToolUseID = id]
ToolResultWithID(uid, id) == [MkBlock("tool_result", uid, "", <<>>) EXCEPT !.ToolUseID = id]
IdShapes == {"two messages", "one message", "result first"}
IdInput(shape, useID, resultID) ==
    IF shape = "two messages"
    THEN << Message("assistant", <<ToolUseWithID(1, useID)>>),
            Message("user", <<ToolResultWithID(2, resultID)>>) >>
    ELSE IF shape = "one message"
    THEN << Message("assistant", <<ToolUseWithID(1, useID), ToolResultWithID(2, resultID)>>) >>
    ELSE << Message("user", <<ToolResultWithID(1, resultID)>>),
            Message("assistant", <<ToolUseWithID(2, useID)>>) >>
\* two tool_use blocks in one assistant message and the result of the first
IdPairInput(firstID, secondID) ==
    << Message("assistant", <<ToolUseWithID(1, firstID), ToolUseWithID(2, secondID)>>),
       Message("user", <<ToolResultWithID(3, firstID)>>) >>
\* [tool_use, text] in one assistant message, the tool_use with every execution side
\* and made by this backend, by another one or by none
ToolSides == {"client", "server", "provider"}
ToolSources == {"", "anthropic", "openrouter"}
ToolUseFrom(side, from) ==
    [ToolUseWithID(1, <<"a">>) EXCEPT !.ExecutionSide = side, !.Provider = from]
ToolSideExamples ==
    { << Message("assistant", << ToolUseFrom(side, from), MkBlock("text", 2, "", <<"b">>) >>) >> :
        side \in ToolSides, from \in ToolSources }
\* tool_use.id = "call 1.x:y" and tool_result.tool_use_id = "call 1.x:y"
SanitizeExampleID == <<"c", "a", "l", "l", " ", "1", ".", "x", ":", "y">>
SanitizeExample == IdInput("two messages", SanitizeExampleID, SanitizeExampleID)
NamedInputs ==
    {<<>>} \cup CrossProviderExamples \cup ToolSideExamples
        \cup {MultipleRoundsExample, MultipleGroupsExample, SanitizeExample}
NewConversion(input) == [NoConversion EXCEPT !.input = input]

streamVars == <<provider, returned, pc, producers, ctxDone, cancelledLive, eventChan,
                orVars, anVars, lorem>>

\* convertToAnthropicMessages calls the three functions; each is applied to the input
ApplySplitCrossProvider ==
    /\ adapter.op = ""
    /\ adapter' = [adapter EXCEPT
                     !.op = "SplitMessagesAtCrossProviderTool",
                     !.output = SplitMessagesAtCrossProviderTool(adapter.input,
                                                                 CurrentProvider)]
    /\ UNCHANGED <<streamVars, classified, response, registry, checked>>
ApplySplitToolResults ==
    /\ adapter.op = ""
    /\ adapter' = [adapter EXCEPT !.op = "splitMessagesAtToolResults",
                                  !.output = splitMessagesAtToolResults(adapter.input)]
    /\ UNCHANGED <<streamVars, classified, response, registry, checked>>
\* the memory layout of the caller's block slices matters to the merge only
Layouts(m) == {shared \in SUBSET (1..m) : Cardinality(shared) \in {0, 2}}
ApplyMerge ==
    /\ adapter.op = ""
    /\ \E shared \in Layouts(Len(adapter.input)) :
          adapter' = [adapter EXCEPT
                        !.layout = shared,
                        !.op = "mergeConsecutiveSameRoleMessages",
                        !.output = mergeConsecutiveSameRoleMessages(adapter.input, shared)]
    /\ UNCHANGED <<streamVars, classified, response, registry, checked>>

\* the split and the merge in a row, and once more on what they returned
Backends == {"anthropic", "openrouter"}
ApplySplitThenMerge ==
    /\ adapter.op = ""
    /\ \E backend \in Backends, shared \in Layouts(Len(adapter.input)) :
          LET mem == SplitThenMerge(backend, MemList(adapter.input, shared))
          IN adapter' = [adapter EXCEPT !.layout = shared, !.backend = backend,
                                        !.op = "splitThenMerge", !.mem = mem,
                                        !.output = Values(mem)]
    /\ UNCHANGED <<streamVars, classified, response, registry, checked>>
ApplySplitThenMergeAgain ==
    /\ adapter.op = "splitThenMerge"
    /\ LET mem == SplitThenMerge(adapter.backend, adapter.mem)
       IN adapter' = [adapter EXCEPT !.op = "splitThenMergeAgain", !.mem = mem,
                                     !.output = Values(mem)]
    /\ UNCHANGED <<streamVars, classified, response, registry, checked>>

ApplyConvertToAnthropic ==
    /\ adapter.op = ""
    /\ adapter' = [adapter EXCEPT
                     !.backend = "anthropic",
                     !.op = "convertToAnthropicMessages",
                     !.output = convertToAnthropicMessages(adapter.input)]
    /\ UNCHANGED <<streamVars, classified, response, registry, checked>>

InitAdapter ==
    /\ InitStream({CurrentProvider})
    /\ classified = NoClassification
    /\ response = NoResponse
    /\ registry = NoRegistry
    /\ checked = NoCheck
    /\ \/ \E input \in NamedInputs : adapter = NewConversion(input)
       \/ \E m \in 1..MaxMsgs, n \in 0..MaxBlocks :
             \E roles \in [1..m -> Roles], kinds \in [1..n -> BlockKinds], cuts \in Cuts(m, n) :
                adapter = NewConversion(MkInput(roles, kinds, cuts))
       \/ \E shape \in IdShapes, useID \in Ids, resultID \in Ids :
             adapter = NewConversion(IdInput(shape, useID, resultID))
       \/ \E firstID \in Ids, secondID \in Ids :
             adapter = NewConversion(IdPairInput(firstID, secondID))
NextAdapter ==
    \/ ApplySplitCrossProvider \/ ApplySplitToolResults \/ ApplyMerge
    \/ ApplySplitThenMerge \/ ApplySplitThenMergeAgain
    \/ ApplyConvertToAnthropic
SpecAdapter == InitAdapter /\ [][NextAdapter]_vars

\* ---------------------------------------------------------------------------------
\* Error classification (errors.go of the library, the OpenRouter error handler)
\* ---------------------------------------------------------------------------------
\* An error value is the chain errors.Unwrap walks, outermost first; nil is <<>>. A link
\* carries its dynamic type and, for the typed errors, the fields the predicates read.
ErrorLink(type) == [type |-> type, Code |-> "", StatusCode |-> 0, Retryable |-> FALSE]
nil == <<>>
\* the sentinels, context.DeadlineExceeded, and an error built by fmt.Errorf without %w
ErrInvalidModel == <<ErrorLink("ErrInvalidModel")>>
ErrInvalidAPIKey == <<ErrorLink("ErrInvalidAPIKey")>>
ErrRateLimited == <<ErrorLink("ErrRateLimited")>>
ErrToolUnavailable == <<ErrorLink("ErrToolUnavailable")>>
ErrProviderUnavailable == <<ErrorLink("ErrProviderUnavailable")>>
ErrTimeout == <<ErrorLink("ErrTimeout")>>
DeadlineExceeded == <<ErrorLink("context.DeadlineExceeded")>>
PlainError == <<ErrorLink("*errors.errorString")>>
\* the typed errors and fmt.Errorf("...%w", err), each around the error it wraps
ModelError(err) == <<ErrorLink("*ModelError")>> \o err
ToolError(retryable, err) ==
    <<[ErrorLink("*ToolError") EXCEPT !.Retryable = retryable]>> \o err
ProviderError(code, statusCode, retryable, err) ==
    <<[type |-> "*ProviderError", Code |-> code, StatusCode |-> statusCode,
       Retryable |-> retryable]>> \o err
WrapError(err) == <<ErrorLink("*fmt.wrapError")>> \o err

\* errors.Is(err, target) for a sentinel target; errors.As(err, &t) is HasType, and the
\* value it stores in t is FirstOfType
Is(err, target) == \E k \in 1..Len(err) : err[k] = target[1]
HasType(err, type) == \E k \in 1..Len(err) : err[k].type = type
FirstOfType(err, type) ==
    err[CHOOSE k \in 1..Len(err) :
           /\ err[k].type = type
           /\ \A j \in 1..(k - 1) : err[j].type # type]

\* HTTP statuses the classification distinguishes, and one it does not (418)
Statuses == {401, 402, 403, 404, 408, 418, 429, 500, 502, 503, 504}

NewProviderError(statusCode, err) ==
    LET retryable == statusCode \in {429, 502, 503, 504}
        code == IF statusCode \in {401, 403} THEN "INVALID_API_KEY"
                ELSE IF statusCode = 429 THEN "RATE_LIMITED"
                ELSE "PROVIDER_UNAVAILABLE"
    IN ProviderError(code, statusCode, retryable, err)

\* an IsRetryable that looks at the sentinels before the typed errors' flags
IsRetryable_SentinelsFirst(err) ==
    IF err = nil THEN FALSE
    ELSE IF Is(err, ErrTimeout) \/ Is(err, DeadlineExceeded) THEN TRUE
    ELSE IF Is(err, ErrRateLimited) \/ Is(err, ErrProviderUnavailable)
            \/ Is(err, ErrToolUnavailable) THEN TRUE
    ELSE IF HasType(err, "*ProviderError") THEN FirstOfType(err, "*ProviderError").Retryable
    ELSE IF HasType(err, "*ToolError") THEN FirstOfType(err, "*ToolError").Retryable
    ELSE FALSE
IsRetryable(err) ==
    IF err = nil THEN FALSE
    ELSE IF Is(err, ErrTimeout) \/ Is(err, DeadlineExceeded) THEN TRUE
    ELSE IF HasType(err, "*ProviderError") THEN FirstOfType(err, "*ProviderError").Retryable
    ELSE IF HasType(err, "*ToolError") THEN FirstOfType(err, "*ToolError").Retryable
    ELSE IF Is(err, ErrRateLimited) THEN TRUE
    ELSE IF Is(err, ErrProviderUnavailable) THEN TRUE
    ELSE IF Is(err, ErrToolUnavailable) THEN TRUE
    ELSE FALSE

IsAuthError(err) ==
    IF err = nil THEN FALSE
    ELSE IF Is(err, ErrInvalidAPIKey) THEN TRUE
    ELSE IF HasType(err, "*ProviderError")
    THEN FirstOfType(err, "*ProviderError").StatusCode \in {401, 403}
    ELSE FALSE

\* handleErrorResponse: parsed is whether the body is JSON with a non-empty error message
handleErrorResponse(statusCode, parsed) ==
    IF ~parsed THEN PlainError
    ELSE IF statusCode = 401 THEN ErrInvalidAPIKey
    ELSE IF statusCode = 429
    THEN ProviderError("RATE_LIMITED", statusCode, TRUE, ErrRateLimited)
    ELSE IF statusCode = 402
    THEN ProviderError("PROVIDER_UNAVAILABLE", statusCode, FALSE, ErrProviderUnavailable)
    ELSE IF statusCode = 408
    THEN ProviderError("TIMEOUT", statusCode, TRUE, ErrTimeout)
    ELSE IF statusCode = 404 THEN ModelError(ErrInvalidModel)
    ELSE ProviderError("PROVIDER_UNAVAILABLE", statusCode, statusCode >= 500,
                       ErrProviderUnavailable)

\* the errors the predicates are applied to: up to MaxWrap wrappers around nil, a sentinel
\* or a plain error
MaxWrap == 2     \* bound: wrappers around the innermost error
Leaves ==
    {nil, ErrInvalidModel, ErrInvalidAPIKey, ErrRateLimited, ErrToolUnavailable,
     ErrProviderUnavailable, ErrTimeout, DeadlineExceeded, PlainError}
Wrappers == {"*ModelError", "*ToolError", "*ProviderError", "*fmt.wrapError"}
Wrap(type, retryable, err) ==
    IF type = "*ModelError" THEN ModelError(err)
    ELSE IF type = "*ToolError" THEN ToolError(retryable, err)
    ELSE IF type = "*ProviderError" THEN ProviderError("", 0, retryable, err)
    ELSE WrapError(err)
RECURSIVE WrapAll(_, _, _, _)
WrapAll(types, flags, k, err) ==
    IF k = 0 THEN err
    ELSE Wrap(types[k], flags[k], WrapAll(types, flags, k - 1, err))

ClassifyError(err) == [NoClassification EXCEPT !.err = err]
ClassifyStatus(statusCode, parsed, err) ==
    [NoClassification EXCEPT !.statusCode = statusCode, !.parsed = parsed, !.err = err]

ApplyIsRetryable ==
    /\ classified.op = ""
    /\ classified.statusCode = 0
    /\ classified' = [classified EXCEPT !.op = "IsRetryable",
                                        !.retryable = IsRetryable(classified.err)]
    /\ UNCHANGED <<streamVars, adapter, response, registry, checked>>
ApplyNewProviderError ==
    /\ classified.op = ""
    /\ classified.statusCode # 0
    /\ classified' = [classified EXCEPT
                        !.op = "NewProviderError",
                        !.result = NewProviderError(classified.statusCode, classified.err)]
    /\ UNCHANGED <<streamVars, adapter, response, registry, checked>>
ApplyHandleErrorResponse ==
    /\ classified.op = ""
    /\ classified.statusCode # 0
    /\ classified' = [classified EXCEPT
                        !.op = "handleErrorResponse",
                        !.result = handleErrorResponse(classified.statusCode,
                                                       classified.parsed)]
    /\ UNCHANGED <<streamVars, adapter, response, registry, checked>>
\* the caller asks whether the error it was handed can be retried
ApplyIsRetryableToResult ==
    /\ classified.op \in {"NewProviderError", "handleErrorResponse"}
    /\ classified' = [classified EXCEPT !.op = classified.op \o ", IsRetryable",
                                        !.retryable = IsRetryable(classified.result)]
    /\ UNCHANGED <<streamVars, adapter, response, registry, checked>>

InitErrors ==
    /\ InitStream({"openrouter"})
    /\ adapter = NoConversion
    /\ response = NoResponse
    /\ registry = NoRegistry
    /\ checked = NoCheck
    /\ \/ \E n \in 0..MaxWrap, leaf \in Leaves :
             \E types \in [1..n -> Wrappers], flags \in [1..n -> BOOLEAN] :
                classified = ClassifyError(WrapAll(types, flags, n, leaf))
       \/ \E statusCode \in Statuses, parsed \in BOOLEAN, leaf \in Leaves :
             classified = ClassifyStatus(statusCode, parsed, leaf)
NextErrors ==
    \/ ApplyIsRetryable \/ ApplyNewProviderError \/ ApplyHandleErrorResponse
    \/ ApplyIsRetryableToResult
SpecErrors == InitErrors /\ [][NextErrors]_vars

\* GenerateResponse of the Lorem provider: the other call a caller can make. The word
\* count of the generated text depends on the lorem generator; it is zero only when no
\* paragraph is generated (targetChars = 0)
GeneratedWords(maxTokens) == IF maxTokens <= 0 THEN {0} ELSE {1, maxTokens}
LoGenerateResponse ==
    /\ provider = "lorem"
    /\ pc = "call"
    /\ \E supported \in BOOLEAN, words \in GeneratedWords(lorem.maxTokens) :
          response' =
              IF ~supported
              THEN [NoResponse EXCEPT !.called = TRUE, !.err = "invalid model"]
              ELSE IF ctxDone
              THEN [NoResponse EXCEPT !.called = TRUE, !.err = "context canceled"]
              ELSE [called |-> TRUE, err |-> "", StopReason |-> "end_turn",
                    OutputTokens |-> words]
    /\ pc' = "generated"
    /\ UNCHANGED <<provider, returned, adapter, classified, registry, checked, producers, ctxDone,
                 cancelledLive, eventChan, orVars, anVars, lorem>>

InitLoremCalls == InitFor({"lorem"})
NextLoremCalls == CallNext \/ LoNext \/ LoGenerateResponse
SpecLoremCalls == InitLoremCalls /\ [][NextLoremCalls]_vars

\* ---------------------------------------------------------------------------------
\* The process-wide registries: the tool registry (tool_registry.go) and the capability
\* catalog (capabilities.go), each behind a sync.Once accessor and a sync.RWMutex
\* ---------------------------------------------------------------------------------
\* registry.kind says which of the two the tasks of a behaviour use. The package state:
\* done and m are the sync.Once (its flag, the task holding its mutex), global the
\* package pointer (0 is nil, k the k-th instance allocated), entries the map as a set
\* of [name, by] (by = 0 for a built-in entry, else the registering task), writing that
\* a map assignment is under way, writer and readers the holders of mu.
MaxTasks == 2     \* bound: concurrent tasks
Tasks == 1..MaxTasks
RegistryKinds == {"tools", "capabilities"}
\* registerBuiltInTools; loadAnthropicCapabilities (the embedded YAML is taken to parse)
BuiltIns(kind) ==
    IF kind = "tools" THEN <<"search", "text_editor", "bash">> ELSE <<"anthropic">>
\* the names the tasks use: a built-in one and one that is not
Names(kind) == IF kind = "tools" THEN {"search", "custom"} ELSE {"anthropic", "custom"}
TaskOps == {"Register", "Get"}
NewTask(op, name) ==
    [op |-> op, name |-> name, pc |-> "start", r |-> 0, path |-> "", err |-> "",
     by |-> -1, torn |-> FALSE]

Has(entries, name) == \E e \in entries : e.name = name
Put(entries, name, by) ==
    {e \in entries : e.name # name} \cup {[name |-> name, by |-> by]}
Lookup(entries, name) == (CHOOSE e \in entries : e.name = name).by

\* sync.Once.Do returns at once when the flag is set
OnceFastPath_Allocated(reg) == reg.done \/ reg.global # 0
OnceFastPath(reg) == reg.done
\* mu.Lock and mu.RLock can be taken
CanLock_NotExclusive(reg) == reg.readers = {}
CanLock(reg) == reg.writer = 0 /\ reg.readers = {}
CanRLock(reg) == reg.writer = 0

\* one step of task t leaves the rest of the program alone
RegistryStep(t, reg) ==
    /\ registry' = reg
    /\ UNCHANGED <<streamVars, adapter, classified, response, checked>>
At(t, label) == t \in 1..Len(registry.tasks) /\ registry.tasks[t].pc = label

\* GetToolRegistry / GetCapabilityRegistry: once.Do(...) then return the package pointer
AccessorFast(t) ==
    /\ At(t, "start")
    /\ OnceFastPath(registry)
    /\ RegistryStep(t, [registry EXCEPT !.tasks[t].pc = "got", !.tasks[t].path = "fast",
                                        !.tasks[t].r = registry.global])
\* the flag is not set: doSlow is called
AccessorSlow(t) ==
    /\ At(t, "start")
    /\ ~OnceFastPath(registry)
    /\ RegistryStep(t, [registry EXCEPT !.tasks[t].pc = "doSlow"])
\* doSlow: o.m.Lock()
OnceLock(t) ==
    /\ At(t, "doSlow")
    /\ registry.m = 0
    /\ RegistryStep(t, [registry EXCEPT !.m = t, !.tasks[t].pc = "once"])
\* under o.m: the flag is set (another task initialized), or f starts and allocates
OnceCheck(t) ==
    /\ At(t, "once")
    /\ IF registry.done
       THEN RegistryStep(t, [registry EXCEPT !.m = 0, !.tasks[t].pc = "got",
                                             !.tasks[t].path = "waited",
                                             !.tasks[t].r = registry.global])
       ELSE RegistryStep(t, [registry EXCEPT !.global = registry.instances + 1,
                                             !.instances = @ + 1,
                                             !.entries = {},
                                             !.tasks[t].pc = "init"])
\* f goes on: one Register call of registerBuiltInTools, or the load of the catalog
OnceBuiltIn(t) ==
    /\ At(t, "init")
    /\ registry.loaded < Len(BuiltIns(registry.kind))
    /\ CanLock(registry)
    /\ LET name == BuiltIns(registry.kind)[registry.loaded + 1]
       IN RegistryStep(t, [registry EXCEPT
                             !.entries = IF registry.kind = "tools" /\ Has(@, name)
                                         THEN @ ELSE Put(@, name, 0),
                             !.loaded = @ + 1])
\* f returns: the flag is set, o.m is unlocked, the accessor returns the pointer
OnceFinish(t) ==
    /\ At(t, "init")
    /\ registry.loaded = Len(BuiltIns(registry.kind))
    /\ RegistryStep(t, [registry EXCEPT !.done = TRUE, !.m = 0, !.tasks[t].pc = "got",
                                        !.tasks[t].path = "init",
                                        !.tasks[t].r = registry.global])

\* Register / RegisterProviderCapabilities: r.mu.Lock()
RegLock(t) ==
    /\ At(t, "got")
    /\ registry.tasks[t].op = "Register"
    /\ CanLock(registry)
    /\ RegistryStep(t, [registry EXCEPT !.writer = t, !.tasks[t].pc = "locked"])
\* the existence check of ToolRegistry.Register (the catalog has none), then the map
\* assignment starts
RegCheck(t) ==
    /\ At(t, "locked")
    /\ IF registry.kind = "tools" /\ Has(registry.entries, registry.tasks[t].name)
       THEN RegistryStep(t, [registry EXCEPT !.tasks[t].pc = "unlock",
                                             !.tasks[t].err = "already registered"])
       ELSE RegistryStep(t, [registry EXCEPT !.writing = TRUE, !.tasks[t].pc = "write"])
\* the map assignment completes
RegWrite(t) ==
    /\ At(t, "write")
    /\ RegistryStep(t, [registry EXCEPT
                          !.entries = Put(@, registry.tasks[t].name, t),
                          !.writing = FALSE,
                          !.tasks[t].pc = "unlock"])
\* the deferred r.mu.Unlock()
RegUnlock(t) ==
    /\ At(t, "unlock")
    /\ RegistryStep(t, [registry EXCEPT !.writer = IF @ = t THEN 0 ELSE @,
                                        !.tasks[t].pc = "done"])

\* Get / GetProviderCapabilities: r.mu.RLock()
GetRLock(t) ==
    /\ At(t, "got")
    /\ registry.tasks[t].op = "Get"
    /\ CanRLock(registry)
    /\ RegistryStep(t, [registry EXCEPT !.readers = @ \cup {t}, !.tasks[t].pc = "rlocked"])
\* the map read: torn when it runs during a map assignment
GetRead(t) ==
    /\ At(t, "rlocked")
    /\ LET name == registry.tasks[t].name
       IN IF Has(registry.entries, name)
          THEN RegistryStep(t, [registry EXCEPT
                                  !.tasks[t].by = Lookup(registry.entries, name),
                                  !.tasks[t].torn = registry.writing,
                                  !.tasks[t].pc = "runlock"])
          ELSE RegistryStep(t, [registry EXCEPT
                                  !.tasks[t].err = "unknown",
                                  !.tasks[t].torn = registry.writing,
                                  !.tasks[t].pc = "runlock"])
\* the deferred r.mu.RUnlock()
GetRUnlock(t) ==
    /\ At(t, "runlock")
    /\ RegistryStep(t, [registry EXCEPT !.readers = @ \ {t}, !.tasks[t].pc = "done"])

InitRegistry ==
    /\ InitStream({"anthropic"})
    /\ adapter = NoConversion
    /\ classified = NoClassification
    /\ response = NoResponse
    /\ checked = NoCheck
    /\ \E kind \in RegistryKinds :
          \E ops \in [Tasks -> TaskOps], names \in [Tasks -> Names(kind)] :
             registry = [NoRegistry EXCEPT
                           !.kind = kind,
                           !.tasks = [t \in Tasks |-> NewTask(ops[t], names[t])]]
NextRegistry ==
    \E t \in Tasks :
        \/ AccessorFast(t) \/ AccessorSlow(t) \/ OnceLock(t) \/ OnceCheck(t)
        \/ OnceBuiltIn(t) \/ OnceFinish(t)
        \/ RegLock(t) \/ RegCheck(t) \/ RegWrite(t) \/ RegUnlock(t)
        \/ GetRLock(t) \/ GetRead(t) \/ GetRUnlock(t)
SpecRegistry == InitRegistry /\ [][NextRegistry]_vars

\* ---------------------------------------------------------------------------------
\* Block predicates (types.go) and ToolChoice validation (tools.go)
\* ---------------------------------------------------------------------------------
\* ExecutionSide is a string type: beside the two constants of tools.go a block can carry
\* any value, among them "provider", and "" stands for a nil ExecutionSide
ExecutionSides == {"", "client", "server", "provider"}
ReplayBlockTypes == {"text", "thinking", "tool_use", "tool_result", "web_search_use"}
ReplayProviders == {"", "anthropic", "openrouter"}
ReplayTargets == {"anthropic", "openrouter", "lorem"}
ReplayBlock(type, side, from) ==
    [MkBlock(type, 1, "t", <<>>) EXCEPT !.BlockType = type, !.ExecutionSide = side,
                                        !.Provider = from]

GetExecutionSide(b) == b.ExecutionSide
IsFromProvider(b, target) == b.Provider # "" /\ b.Provider = target
CanReplayToProvider(b, targetProvider) ==
    IF b.BlockType # "tool_use" THEN TRUE
    ELSE IF GetExecutionSide(b) = "client" THEN TRUE
    ELSE IsFromProvider(b, targetProvider)

\* a ToolChoice: ToolName is <<>> for a nil pointer, else the one string pointed to
ToolChoiceModes == {"auto", "required", "none", "specific", "sometimes"}
ToolNames == {<<>>, <<"">>, <<"search">>}
\* ToolChoice.Validate: "" is a nil error
ToolChoiceValidate(tc) ==
    IF tc.Mode = "specific" /\ tc.ToolName = <<>>
    THEN "tool_name is required when mode is 'specific'"
    ELSE IF tc.Mode = "specific" /\ tc.ToolName[1] = ""
    THEN "tool_name cannot be empty when mode is 'specific'"
    ELSE IF tc.Mode \notin {"auto", "required", "none", "specific"}
    THEN "invalid tool choice mode"
    ELSE ""

ApplyCanReplayToProvider ==
    /\ checked.fn = ""
    /\ "block" \in DOMAIN checked.input
    /\ checked' = [checked EXCEPT
                     !.fn = "CanReplayToProvider",
                     !.result = IF CanReplayToProvider(checked.input.block,
                                                       checked.input.target)
                                THEN "true" ELSE "false"]
    /\ UNCHANGED <<streamVars, adapter, classified, response, registry>>
ApplyToolChoiceValidate ==
    /\ checked.fn = ""
    /\ "Mode" \in DOMAIN checked.input
    /\ checked' = [checked EXCEPT !.fn = "ToolChoice.Validate",
                                  !.result = ToolChoiceValidate(checked.input)]
    /\ UNCHANGED <<streamVars, adapter, classified, response, registry>>

InitContracts ==
    /\ InitStream({"anthropic"})
    /\ adapter = NoConversion
    /\ classified = NoClassification
    /\ response = NoResponse
    /\ registry = NoRegistry
    /\ \/ \E type \in ReplayBlockTypes, side \in ExecutionSides, from \in ReplayProviders,
             target \in ReplayTargets :
             checked = [NoCheck EXCEPT !.input = [block |-> ReplayBlock(type, side, from),
                                                  target |-> target]]
       \/ \E mode \in ToolChoiceModes, name \in ToolNames :
             checked = [NoCheck EXCEPT !.input = [Mode |-> mode, ToolName |-> name]]
NextContracts == ApplyCanReplayToProvider \/ ApplyToolChoiceValidate
SpecContracts == InitContracts /\ [][NextContracts]_vars

(***************************************************************************)
(* Claims about the message conversion                                     *)
(***************************************************************************)
AllBlocks(messages) == [i \in 1..Len(messages) |-> messages[i].Blocks]

\* the input is one assistant message [foreign provider-side tool_use T, text A, text B]
\* and the cross-provider splitter has been applied to it
C17_Case ==
    /\ adapter.op = "SplitMessagesAtCrossProviderTool"
    /\ Len(adapter.input) = 1
    /\ adapter.input[1].Role = "assistant"
    /\ Len(adapter.input[1].Blocks) = 3
    /\ IsCrossProviderTool(adapter.input[1].Blocks[1], CurrentProvider)
    /\ adapter.input[1].Blocks[2].BlockType = "text"
    /\ adapter.input[1].Blocks[3].BlockType = "text"

RECURSIVE RoleBlockPairs(_)
RoleBlockPairs(messages) ==
    IF messages = <<>> THEN <<>>
    ELSE LET msg == Head(messages)
         IN [j \in 1..Len(msg.Blocks) |-> <<msg.Role, msg.Blocks[j]>>]
            \o RoleBlockPairs(Tail(messages))
RECURSIVE NotSynthetic(_)
NotSynthetic(pairs) ==
    IF pairs = <<>> THEN <<>>
    ELSE (IF Head(pairs)[2].uid # 0 THEN <<Head(pairs)>> ELSE <<>>) \o NotSynthetic(Tail(pairs))

\* positions in an assistant block list of the foreign provider-side tool_use blocks, and
\* of the first text block that follows one of them
ForeignToolUses(blocks) ==
    {i \in 1..Len(blocks) : IsCrossProviderTool(blocks[i], CurrentProvider)}
FirstTextAfter(blocks, i) ==
    {j \in (i + 1)..Len(blocks) :
        /\ blocks[j].BlockType = "text"
        /\ \A k \in (i + 1)..(j - 1) : blocks[k].BlockType # "text"}
ResultTextBlocks(blocks) ==
    UNION {FirstTextAfter(blocks, i) : i \in ForeignToolUses(blocks)}
\* what is left of a message once the foreign tool_uses and their results are taken out
RECURSIVE WithoutToolsAndResults(_)
WithoutToolsAndResults(messages) ==
    IF messages = <<>> THEN <<>>
    ELSE LET msg == Head(messages)
             gone == IF msg.Role = "assistant"
                     THEN ForeignToolUses(msg.Blocks) \cup ResultTextBlocks(msg.Blocks)
                     ELSE {}
             kept == {j \in 1..Len(msg.Blocks) : j \notin gone}
             Nth(n) == CHOOSE j \in kept : Cardinality({k \in kept : k < j}) = n - 1
         IN [n \in 1..Cardinality(kept) |-> <<msg.Role, msg.Blocks[Nth(n)]>>]
            \o WithoutToolsAndResults(Tail(messages))

\* C18: the cross-provider splitter takes, for each foreign provider-side tool_use of an
\* assistant message, the first text block that follows it as the tool result; every
\* other block is in the output exactly once, in its original order, under its role
C18_OnlyFirstTextIsResult ==
    adapter.op = "SplitMessagesAtCrossProviderTool" =>
        NotSynthetic(RoleBlockPairs(adapter.output))
            = WithoutToolsAndResults(adapter.input)

Alternating(messages) ==
    \A i \in 1..(Len(messages) - 1) : messages[i].Role # messages[i + 1].Role
IsToolResult(b) == b.BlockType = "tool_result"
\* the runs of an assistant block list: a run starts at the first block, at every
\* tool_result and right after every tool_result
RunStarts(blocks) ==
    {j \in 1..Len(blocks) : j = 1 \/ IsToolResult(blocks[j]) \/ IsToolResult(blocks[j - 1])}
RunsOf(blocks) ==
    LET starts == RunStarts(blocks)
        Start(n) == CHOOSE j \in starts : Cardinality({k \in starts : k < j}) = n - 1
        End(n) == IF n = Cardinality(starts) THEN Len(blocks) ELSE Start(n + 1) - 1
    IN [n \in 1..Cardinality(starts) |->
          Message(IF IsToolResult(blocks[Start(n)]) THEN "user" ELSE "assistant",
                  SubSeq(blocks, Start(n), End(n)))]
\* each tool_result of an assistant message alone in a user message, the blocks between
\* tool_results together in assistant messages, other messages as they are
SplitIntoRuns(messages) ==
    Flatten([k \in 1..Len(messages) |->
               IF messages[k].Role = "assistant" THEN RunsOf(messages[k].Blocks)
               ELSE <<messages[k]>>])
AdjacentToolResults(blocks) ==
    \E j \in 1..(Len(blocks) - 1) : IsToolResult(blocks[j]) /\ IsToolResult(blocks[j + 1])
HasToolResult(blocks) == \E j \in 1..Len(blocks) : IsToolResult(blocks[j])

\* C19 as stated: every assistant message containing tool_results becomes an alternating
\* sequence, each tool_result alone in a user message, the blocks between them together in
\* assistant messages, nothing lost, other messages unchanged
C19_AsStated ==
    adapter.op = "splitMessagesAtToolResults" =>
        /\ adapter.output = SplitIntoRuns(adapter.input)
        /\ \A k \in 1..Len(adapter.input) :
              (adapter.input[k].Role = "assistant" /\ HasToolResult(adapter.input[k].Blocks))
                  => Alternating(splitMessagesAtToolResults(<<adapter.input[k]>>))

\* C19: the tool-result split puts each tool_result of an assistant message alone in a
\* user message and keeps the blocks between tool_results together, in order, in assistant
\* messages, with no block lost or duplicated and other messages unchanged; the messages
\* made from one assistant message alternate when no two of its tool_results are adjacent;
\* [tool_use A, tool_result A, thinking, tool_use B, tool_result B] gives four messages
\* assistant, user, assistant, user with 1, 1, 2, 1 blocks
C19_SplitAtToolResults ==
    adapter.op = "splitMessagesAtToolResults" =>
        /\ adapter.output = SplitIntoRuns(adapter.input)
        /\ Flatten(AllBlocks(adapter.output)) = Flatten(AllBlocks(adapter.input))
        /\ \A k \in 1..Len(adapter.input) :
              (adapter.input[k].Role = "assistant" /\ ~AdjacentToolResults(adapter.input[k].Blocks))
                  => Alternating(splitMessagesAtToolResults(<<adapter.input[k]>>))
        /\ adapter.input = MultipleRoundsExample =>
              /\ [i \in 1..Len(adapter.output) |-> adapter.output[i].Role]
                    = <<"assistant", "user", "assistant", "user">>
              /\ [i \in 1..Len(adapter.output) |-> Len(adapter.output[i].Blocks)]
                    = <<1, 1, 2, 1>>

\* C19 witness: the split has run on the two-round block list
C19_Witness ==
    /\ adapter.op = "splitMessagesAtToolResults"
    /\ adapter.input = MultipleRoundsExample
    /\ Len(adapter.output) = 4

\* the roles of a message list with each run of equal roles reduced to one
RECURSIVE RunRoles(_)
RunRoles(messages) ==
    IF messages = <<>> THEN <<>>
    ELSE IF Len(messages) >= 2 /\ messages[1].Role = messages[2].Role
    THEN RunRoles(Tail(messages))
    ELSE <<messages[1].Role>> \o RunRoles(Tail(messages))

\* C20: after mergeConsecutiveSameRoleMessages no two adjacent output messages have the
\* same role, there is one output message for each maximal run of same-role input
\* messages, and the (role, block) pairs of the output are those of the input, in order
C20_MergeConsecutiveSameRole ==
    adapter.op = "mergeConsecutiveSameRoleMessages" =>
        /\ Alternating(adapter.output)
        /\ [i \in 1..Len(adapter.output) |-> adapter.output[i].Role] = RunRoles(adapter.input)
        /\ RoleBlockPairs(adapter.output) = RoleBlockPairs(adapter.input)

\* C21: the split followed by the merge, applied to its own result, returns the same
\* ordered list of (role, block) pairs, for the Anthropic and for the OpenRouter split
C21_SplitMergeIdempotent ==
    [][(adapter.op = "splitThenMerge" /\ adapter'.op = "splitThenMergeAgain")
          => RoleBlockPairs(adapter'.output) = RoleBlockPairs(adapter.output)]_vars

\* C21 witness: the second pass has run for OpenRouter on a list where the first pass
\* both split an assistant message and merged two messages
C21_Witness ==
    /\ adapter.op = "splitThenMergeAgain"
    /\ adapter.backend = "openrouter"
    /\ \E k \in 1..Len(adapter.input) :
          adapter.input[k].Role = "assistant" /\ HasToolResult(adapter.input[k].Blocks)
    /\ \E k \in 1..Len(adapter.output) : adapter.output[k].Role = "tool"
    /\ Len(adapter.output) < Len(OpenRouterSplitInMemory(MemList(adapter.input, {})).msgs)

\* the blocks sent to Anthropic by a conversion, and the id an input block carried
Emitted == Flatten(AllBlocks(adapter.output.result))
InputBlocks == Flatten(AllBlocks(adapter.input))
IDOnInput(uid) ==
    LET k == CHOOSE k \in 1..Len(InputBlocks) : InputBlocks[k].uid = uid
    IN InputBlocks[k].ToolUseID
MatchesIDPattern(id) == Len(id) > 0 /\ \A k \in 1..Len(id) : id[k] \in ValidIDChars
IsToolBlockParam(p) == p.type \in {"tool_use", "tool_result"}

\* C22: after convertToAnthropicMessages every emitted tool_use id and tool_result
\* tool_use_id matches ^[a-zA-Z0-9_-]+$, a tool_use and a tool_result with the same id
\* on input have the same id on output, and "call 1.x:y" becomes "call_1_x_y" in both
C22_SanitizedIDsStayPaired ==
    adapter.op = "convertToAnthropicMessages" =>
        /\ \A k \in 1..Len(Emitted) :
              IsToolBlockParam(Emitted[k]) => MatchesIDPattern(Emitted[k].id)
        /\ \A k \in 1..Len(Emitted), n \in 1..Len(Emitted) :
              (/\ Emitted[k].type = "tool_use" /\ Emitted[n].type = "tool_result"
               /\ IDOnInput(Emitted[k].from) = IDOnInput(Emitted[n].from))
                  => Emitted[k].id = Emitted[n].id
        /\ (adapter.input = SanitizeExample /\ adapter.output.err = "") =>
              [k \in 1..Len(Emitted) |-> Emitted[k].id]
                 = << <<"c", "a", "l", "l", "_", "1", "_", "x", "_", "y">>,
                      <<"c", "a", "l", "l", "_", "1", "_", "x", "_", "y">> >>

\* C22 witness: the conversion has emitted the pair of the "call 1.x:y" conversation
C22_Witness ==
    /\ adapter.op = "convertToAnthropicMessages"
    /\ adapter.input = SanitizeExample
    /\ adapter.output.err = ""
    /\ Len(Emitted) = 2

\* a tool_result of the input whose tool_use_id is not that of an earlier tool_use
UnmatchedToolResult ==
    \E k \in 1..Len(InputBlocks) :
        /\ InputBlocks[k].BlockType = "tool_result"
        /\ ~\E j \in 1..(k - 1) :
              /\ InputBlocks[j].BlockType = "tool_use"
              /\ InputBlocks[j].ToolUseID = InputBlocks[k].ToolUseID

\* C23: a conversation holding a tool_result whose tool_use_id matches no earlier
\* tool_use is rejected by the adapter's conversion with an error
C23_UnmatchedToolResultRejected ==
    (adapter.op = "convertToAnthropicMessages" /\ UnmatchedToolResult)
        => adapter.output.err # ""

\* the error IsRetryable was asked about, once it has answered
RetryAsked ==
    classified.op \in {"IsRetryable", "NewProviderError, IsRetryable",
                       "handleErrorResponse, IsRetryable"}
AskedError == IF classified.op = "IsRetryable" THEN classified.err ELSE classified.result
TimedOut(err) == Is(err, ErrTimeout) \/ Is(err, DeadlineExceeded)
\* the links of the chain that are typed errors carrying a retryable flag of the type
Flagged(err, type) == {k \in 1..Len(err) : err[k].type = type}
Outermost(err, type) ==
    err[CHOOSE k \in Flagged(err, type) : \A j \in Flagged(err, type) : k <= j]

\* C24 as stated: IsRetryable returns true for every error that is or wraps the
\* rate-limit, provider-unavailable or timeout sentinel, for a deadline-exceeded error and
\* for every typed provider error whose retryable flag is set; false for nil
C24_AsStated ==
    RetryAsked =>
        /\ (\/ Is(AskedError, ErrRateLimited) \/ Is(AskedError, ErrProviderUnavailable)
            \/ TimedOut(AskedError)
            \/ \E k \in Flagged(AskedError, "*ProviderError") : AskedError[k].Retryable)
              => classified.retryable
        /\ AskedError = nil => ~classified.retryable

\* C24 (amended): IsRetryable returns false for nil and true for every error that is or
\* wraps the timeout sentinel or a deadline-exceeded error; any other error whose chain
\* holds a typed provider error gets the retryable flag of the outermost one, whatever
\* sentinel it wraps; without a provider error, the flag of the outermost typed tool error;
\* and an error with neither is retryable when it is or wraps the rate-limit or the
\* provider-unavailable sentinel
C24_IsRetryable ==
    RetryAsked =>
        /\ AskedError = nil => ~classified.retryable
        /\ TimedOut(AskedError) => classified.retryable
        /\ (~TimedOut(AskedError) /\ Flagged(AskedError, "*ProviderError") # {})
              => classified.retryable = Outermost(AskedError, "*ProviderError").Retryable
        /\ (/\ ~TimedOut(AskedError) /\ Flagged(AskedError, "*ProviderError") = {}
            /\ Flagged(AskedError, "*ToolError") # {})
              => classified.retryable = Outermost(AskedError, "*ToolError").Retryable
        /\ (/\ Flagged(AskedError, "*ProviderError") = {}
            /\ Flagged(AskedError, "*ToolError") = {}
            /\ Is(AskedError, ErrRateLimited) \/ Is(AskedError, ErrProviderUnavailable))
              => classified.retryable

\* C24 witness: IsRetryable has answered false for the handler's 402 error, a provider
\* error with a clear flag around the provider-unavailable sentinel
C24_Witness ==
    /\ classified.op = "handleErrorResponse, IsRetryable"
    /\ classified.statusCode = 402
    /\ Is(classified.result, ErrProviderUnavailable)
    /\ ~classified.retryable

\* the classes of the specification, read off an error the way a caller can: by the
\* sentinel it wraps or by the code of its provider error
CodeOf(err) ==
    IF Flagged(err, "*ProviderError") = {} THEN ""
    ELSE Outermost(err, "*ProviderError").Code
RateLimitedClass(err) == Is(err, ErrRateLimited) \/ CodeOf(err) = "RATE_LIMITED"
UnavailableClass(err) == Is(err, ErrProviderUnavailable) \/ CodeOf(err) = "PROVIDER_UNAVAILABLE"
TimeoutClass(err) == Is(err, ErrTimeout) \/ CodeOf(err) = "TIMEOUT"
InvalidModelClass(err) == Is(err, ErrInvalidModel) \/ CodeOf(err) = "INVALID_MODEL"

\* C25: an error built from an HTTP status by NewProviderError or by the OpenRouter
\* handler (from a parsed error body) is classified 401/403 auth; 429 rate-limited and
\* retryable; 402 provider-unavailable and not retryable; 408 timeout and retryable; 404
\* invalid-model; 502/503/504 provider-unavailable and retryable; 500
\* provider-unavailable and not retryable
C25_StatusClassification ==
    (/\ classified.op \in {"NewProviderError, IsRetryable",
                           "handleErrorResponse, IsRetryable"}
     /\ classified.op = "handleErrorResponse, IsRetryable" => classified.parsed
     /\ classified.op = "NewProviderError, IsRetryable" => classified.err = nil)
        => LET err == classified.result
               status == classified.statusCode
           IN /\ status \in {401, 403} => IsAuthError(err)
              /\ status = 429 => RateLimitedClass(err) /\ classified.retryable
              /\ status = 402 => UnavailableClass(err) /\ ~classified.retryable
              /\ status = 408 => TimeoutClass(err) /\ classified.retryable
              /\ status = 404 => InvalidModelClass(err)
              /\ status \in {502, 503, 504} => UnavailableClass(err) /\ classified.retryable
              /\ status = 500 => UnavailableClass(err) /\ ~classified.retryable

\* a finished, never cancelled Lorem stream of a non-cutoff model, asked with a positive
\* max_tokens and neither thinking nor tools
LoremFastFinished ==
    /\ provider = "lorem" /\ Finished /\ ~ctxDone
    /\ ~lorem.cutoff /\ lorem.maxTokens > 0
    /\ ~lorem.thinkingEnabled /\ lorem.tools = 0
IsTextDelta(e) == e.ev = "delta" /\ e.dkind = "text_delta"

\* C26: a Lorem stream for a non-cutoff model with a positive max_tokens and an
\* uncancelled context delivers at least one text delta, no error event, and ends with a
\* metadata event whose stop_reason is "end_turn" and whose output_tokens is positive
C26_LoremFastEndsTurn ==
    LoremFastFinished =>
        /\ Positions(IsTextDelta) # {}
        /\ Positions(IsError) = {}
        /\ Len(Sent) > 0
        /\ Sent[Len(Sent)].ev = "metadata"
        /\ Sent[Len(Sent)].kind = "end_turn"
        /\ Sent[Len(Sent)].idx > 0

\* the index of the block an event at position i belongs to is that of the latest
\* block-start delta; the blocks streamed are the indices of the block starts
StreamedBlocks == {Sent[i].idx : i \in Positions(IsBlockStart)}
DeltasOf(b) == {i \in Positions(IsDelta) : Sent[i].idx = b}

\* C27: in a Lorem stream that ends with metadata, every streamed block has a complete
\* Block event for its index after all of the block's deltas and before the metadata
C27_BlockEventPerBlock ==
    (provider = "lorem" /\ Finished /\ Positions(IsMetadata) # {}) =>
        \A b \in StreamedBlocks :
            \E i \in Positions(IsBlock) :
                /\ Sent[i].idx = b
                /\ \A j \in DeltasOf(b) : j < i
                /\ \A m \in Positions(IsMetadata) : i < m

\* C28: for a Lorem cutoff model the reported stop reason is "max_tokens", in the final
\* metadata event of StreamResponse and in the response GenerateResponse returns
C28_CutoffStopsAtMaxTokens ==
    (provider = "lorem" /\ lorem.cutoff) =>
        /\ \A i \in Positions(IsMetadata) : Sent[i].kind = "max_tokens"
        /\ (pc = "generated" /\ response.err = "") => response.StopReason = "max_tokens"

\* the tasks that register a tool under a name, those of them that have returned, and
\* those that returned no error
Registrants(name) ==
    {t \in 1..Len(registry.tasks) :
        registry.tasks[t].op = "Register" /\ registry.tasks[t].name = name}
ReturnedTasks == {t \in 1..Len(registry.tasks) : registry.tasks[t].pc = "done"}
Succeeded(name) == {t \in Registrants(name) \cap ReturnedTasks : registry.tasks[t].err = ""}
IsBuiltIn(name) == \E k \in 1..Len(BuiltIns(registry.kind)) : BuiltIns(registry.kind)[k] = name

\* C29: mutations of a registry are serialized. Of the tasks that concurrently register a
\* factory under one tool name at most one succeeds, and once all have returned exactly
\* one has succeeded (none when the name is a built-in tool's) and every other holds the
\* already-registered error; a lookup never reads the map during an assignment, and what it
\* returns is an entry that was registered (a built-in one or a successful task's) or
\* the unknown-name error
C29_MutationsSerialized ==
    registry.kind # "" =>
        /\ registry.kind = "tools" =>
              \A name \in Names("tools") :
                  /\ Cardinality(Succeeded(name)) <= 1
                  /\ (Registrants(name) # {} /\ Registrants(name) \subseteq ReturnedTasks) =>
                        /\ Cardinality(Succeeded(name)) = (IF IsBuiltIn(name) THEN 0 ELSE 1)
                        /\ \A t \in Registrants(name) \ Succeeded(name) :
                               registry.tasks[t].err = "already registered"
        /\ \A t \in 1..Len(registry.tasks) :
              /\ ~registry.tasks[t].torn
              /\ (registry.tasks[t].op = "Get" /\ registry.tasks[t].pc \in {"runlock", "done"}) =>
                    \/ registry.tasks[t].err = "unknown" /\ registry.tasks[t].by = -1
                    \/ /\ registry.tasks[t].err = ""
                       /\ registry.tasks[t].by = 0 => IsBuiltIn(registry.tasks[t].name)
                       /\ registry.tasks[t].by > 0 =>
                             /\ registry.tasks[t].by \in Registrants(registry.tasks[t].name)
                             /\ registry.tasks[registry.tasks[t].by].err = ""
                             /\ registry.tasks[registry.tasks[t].by].pc \in {"unlock", "done"}

\* C29 witness: two tasks have registered a factory under the same new tool name, both
\* have returned, one without error and one with the already-registered error
C29_Witness ==
    /\ registry.kind = "tools"
    /\ Cardinality(Registrants("custom")) >= 2
    /\ Registrants("custom") \subseteq ReturnedTasks
    /\ Cardinality(Succeeded("custom")) = 1

\* the tasks the accessor has returned to
HoldRegistry == {t \in 1..Len(registry.tasks) : registry.tasks[t].path # ""}
EntryNames == {e.name : e \in registry.entries}

\* C30: a registry is initialized exactly once even when first uses are concurrent: at
\* most one instance is ever allocated, every task the accessor has returned to holds
\* that instance, the built-in entries are registered once, and they are all present
\* whenever the accessor has returned to a task
C30_InitializedOnce ==
    registry.kind # "" =>
        /\ registry.instances <= 1
        /\ registry.loaded <= Len(BuiltIns(registry.kind))
        /\ \A t \in HoldRegistry :
              /\ registry.tasks[t].r = 1
              /\ registry.instances = 1
              /\ registry.loaded = Len(BuiltIns(registry.kind))
              /\ \A k \in 1..Len(BuiltIns(registry.kind)) :
                    BuiltIns(registry.kind)[k] \in EntryNames
        /\ Cardinality({t \in HoldRegistry : registry.tasks[t].path = "init"}) <= 1

\* C30 witness: two tasks made the first use concurrently; one ran the initialization,
\* the other waited on the Once and then got the same instance
C30_Witness ==
    \E t, u \in HoldRegistry :
        /\ registry.tasks[t].path = "init"
        /\ registry.tasks[u].path = "waited"
        /\ registry.tasks[t].r = registry.tasks[u].r
        /\ registry.tasks[t].r = 1

\* C31: CanReplayToProvider(target) is true for every non-tool block, true for every
\* client-side and every server-side tool block whatever the target, and for a
\* provider-side tool block true exactly when target is the block's source backend
C31_CanReplayToProvider ==
    checked.fn = "CanReplayToProvider" =>
        LET b == checked.input.block
            target == checked.input.target
        IN /\ b.BlockType \in {"text", "thinking"} => checked.result = "true"
           /\ (b.BlockType = "tool_use" /\ b.ExecutionSide \in {"client", "server"})
                 => checked.result = "true"
           /\ (b.BlockType = "tool_use" /\ b.ExecutionSide = "provider")
                 => (checked.result = "true") = (b.Provider = target)

\* C32: ToolChoice validation accepts mode specific only when tool_name is non-empty, and
\* rejects a choice in mode auto, required or none that supplies a tool_name
C32_ToolChoiceValidate ==
    checked.fn = "ToolChoice.Validate" =>
        /\ (checked.input.Mode = "specific" /\ checked.result = "")
              => checked.input.ToolName \notin {<<>>, <<"">>}
        /\ (checked.input.Mode \in {"auto", "required", "none"}
            /\ checked.input.ToolName \notin {<<>>, <<"">>})
              => checked.result # ""

\* the deltas a tool call streams: its start and its argument fragments
IsToolCallDelta(e) == IsDelta(e) /\ e.dkind \in {"tool_call_start", "json_delta"}
\* the complete Blocks and the deltas of text, thinking and web-search blocks
IsContentBlockEvent(e) ==
    \/ IsBlock(e) /\ e.kind \in {"text", "thinking", "web_search_use", "web_search_result"}
    \/ IsDelta(e) /\ e.dkind \in {"text_delta", "thinking_delta"}

\* C33 (openrouter): in a stream that ended with metadata, the block index of a tool
\* call's tool_call_start delta equals the sequence of the complete tool_use Block
\* emitted for that call (the Block carrying its id), and the index of every
\* tool_call_start and json_delta differs from the index of every text, thinking or
\* web-search block of the stream
C33_ToolDeltaIndexIsBlockSequence ==
    (provider = "openrouter" /\ EndedWithMetadata) =>
        /\ \A i \in ToolCallStarts : \A j \in ToolUseBlocks :
              (/\ Sent[i].data[1] # ""
               /\ Sent[j].data[1] = Sent[i].data[1]
               /\ Cardinality({k \in ToolCallStarts : Sent[k].data[1] = Sent[i].data[1]}) = 1)
                 => Sent[i].idx = Sent[j].idx
        /\ \A i, j \in 1..Len(Sent) :
              (IsToolCallDelta(Sent[i]) /\ IsContentBlockEvent(Sent[j]))
                 => Sent[i].idx # Sent[j].idx

\* the text fragments of the text deltas for block index k among the first n events,
\* concatenated in emission order
RECURSIVE DeltaTextOf(_, _)
DeltaTextOf(k, n) ==
    IF n = 0 THEN <<>>
    ELSE DeltaTextOf(k, n - 1) \o
         (IF IsDelta(Sent[n]) /\ Sent[n].dkind = "text_delta" /\ Sent[n].idx = k
          THEN Sent[n].data ELSE <<>>)
ContentBlocks == {j \in Positions(IsBlock) : Sent[j].kind \in {"text", "thinking"}}

\* C34 (openrouter): the content of each complete thinking or text Block is the
\* concatenation, in order, of the text deltas emitted for that Block's index and of
\* nothing else, whatever the number of thinking and text blocks of the stream
C34_BlockContentIsItsDeltas ==
    provider = "openrouter" =>
        \A j \in ContentBlocks : Sent[j].data = DeltaTextOf(Sent[j].idx, Len(Sent))

\* ---------------------------------------------------------------------------------
\* Progress of the producer goroutine
\* ---------------------------------------------------------------------------------
\* The Go scheduler runs a goroutine that is not blocked, so the producer's steps are
\* weakly fair. A consumer that stops receiving is a consumer without any fairness:
\* Receive may never happen again.
SpecLoremStalled == SpecLoremChan /\ WF_vars(LoNextBlocking)

\* C35: after the caller's context is cancelled the producer eventually terminates and
\* closes the event channel, even if the consumer stops receiving
C35_CancelledProducerTerminates ==
    (ctxDone /\ pc = "run") ~> (pc = "done" /\ eventChan.closed = 1)

\* the tool_use blocks of a message list that the block converter rejects as foreign
RejectedAsForeign(messages) ==
    { b \in UNION { {messages[i].Blocks[j] : j \in 1..Len(messages[i].Blocks)} :
                      i \in 1..Len(messages) } :
        ConvertAnthropicBlock(b).err = "unexpected cross-provider provider-side tool" }

\* C36 (anthropic): the cross-provider splitter leaves no tool_use block that the block
\* converter rejects as a foreign tool that should have been split out, so the
\* conversion never raises that invariant error
C36_SplitterCoversConverterCheck ==
    /\ adapter.op = "SplitMessagesAtCrossProviderTool"
          => RejectedAsForeign(adapter.output) = {}
    /\ adapter.op = "convertToAnthropicMessages"
          => adapter.output.err # "unexpected cross-provider provider-side tool"

\* C37 (anthropic): sanitization keeps distinct ids distinct: two tool_use blocks whose
\* ids differ on input have different ids after a successful conversion, and an emitted
\* tool_result carries the id of an emitted tool_use only if it did so on input
C37_DistinctIDsStayDistinct ==
    (adapter.op = "convertToAnthropicMessages" /\ adapter.output.err = "") =>
        /\ \A k \in 1..Len(Emitted), n \in 1..Len(Emitted) :
              (/\ Emitted[k].type = "tool_use" /\ Emitted[n].type = "tool_use"
               /\ IDOnInput(Emitted[k].from) # IDOnInput(Emitted[n].from))
                  => Emitted[k].id # Emitted[n].id
        /\ \A k \in 1..Len(Emitted), n \in 1..Len(Emitted) :
              (/\ Emitted[k].type = "tool_use" /\ Emitted[n].type = "tool_result"
               /\ Emitted[k].id = Emitted[n].id)
                  => IDOnInput(Emitted[k].from) = IDOnInput(Emitted[n].from)

\* the word deltas of a Lorem stream, and its metadata event
IsWordDelta(e) == IsDelta(e) /\ e.dkind \in {"text_delta", "thinking_delta"}
LoremMetadata == Sent[CHOOSE m \in Positions(IsMetadata) : TRUE]

\* C38 (lorem): in a stream that ends with a metadata event, the output_tokens of the
\* metadata equals the number of word deltas streamed and does not exceed max_tokens
C38_OutputTokensAreWords ==
    (provider = "lorem" /\ Finished /\ Positions(IsMetadata) # {}) =>
        /\ LoremMetadata.idx = Cardinality(Positions(IsWordDelta))
        /\ LoremMetadata.idx <= lorem.maxTokens

\* C39 (lorem): the block indices carried by the block-start deltas are 0, 1, 2, ... in
\* emission order, without gap or repetition
C39_BlockIndicesContiguous ==
    provider = "lorem" =>
        \A i \in Positions(IsBlockStart) :
            Sent[i].idx = Cardinality({j \in Positions(IsBlockStart) : j < i})

\* A consumer that keeps receiving: Receive is weakly fair too. The call itself is the
\* caller's step and the cancellation is never forced.
SpecLoremLive ==
    SpecLoremChan /\ WF_vars(LoNextBlocking) /\ WF_vars(Receive)

\* the stream is over: the block loop has ended, one metadata event was sent and the
\* channel is closed
LoremCompleted ==
    /\ pc = "done"
    /\ lorem.phase = "exit"
    /\ Cardinality(Positions(IsMetadata)) = 1
    /\ IsMetadata(Sent[Len(Sent)])
    /\ eventChan.closed = 1

\* C40 (lorem): for every request (max_tokens negative, zero or positive, thinking on or
\* off, with or without tools), with a consumer that keeps receiving and a context that
\* is not cancelled, the block loop terminates, exactly one metadata event is sent and
\* the channel is closed
C40_LoremTerminates ==
    (provider = "lorem" /\ pc = "run") ~> (ctxDone \/ LoremCompleted)

\* C40 witness: an uncancelled stream of several blocks, longer than the buffer, has
\* completed after the consumer received from it
C40_Witness ==
    /\ provider = "lorem" /\ ~ctxDone
    /\ LoremCompleted
    /\ lorem.blockIndex >= 2
    /\ Len(Sent) > ChanCap
    /\ eventChan.recv > 0

====
